---- MODULE Spec2Model ----
(***************************************************************************)
(* NekoProxy: a controller that holds the desired configuration of a      *)
(* fleet of L4 proxy agents, and the agents that pull, apply and report.  *)
(*                                                                         *)
(* The module is organised by component.  Every component has its own      *)
(* variables and its own specification; the actions of one component       *)
(* leave the variables of the others unchanged.                            *)
(*                                                                         *)
(*   SpecStore   controller record store and config_version               *)
(*   SpecStats   agent StatsReporter queue                                 *)
(*   SpecConn    one TCPProxy and its connection handlers                  *)
(*   SpecFw      FirewallManager.sync_rules called one call at a time      *)
(*   SpecAgent   ConfigSync pull loop, force_sync and the apply tasks      *)
(*   SpecRegistry  agent registration, heartbeats and the Health Monitor   *)
(*   SpecRefs    the requests that create and delete referring records    *)
(*   SpecUdp     one UDPProxy, its sessions and its reaper                 *)
(*   SpecReporterStop  the StatsReporter with its stop()                   *)
(*   SpecShutdown  NekoProxyAgent.stop with open flows and sessions        *)
(*   SpecCreateService  POST /services requests in worker threads          *)
(***************************************************************************)
EXTENDS Integers, Sequences, FiniteSets, TLC

\* ------------------------------------------------------------------------
\* Bounds of the model
\* ------------------------------------------------------------------------
MaxClock == 3
MaxRows == 2
MaxMutations == 3
\* an assignment update can also be the request after MaxMutations requests
MaxMutationsWithUpdate == 4
\* number of POST /services requests handled side by side
MaxCreates == 2
\* the capacity of the stats deque (maxlen=10000 in the source) and the size
\* of a stats batch (stats_batch_size, 100 by default), scaled down
QueueMaxLen == 3
BatchSize == 2
\* number of record() calls
MaxRecords == 6
\* number of client connections one TCPProxy accepts, and the cap of a
\* connection's byte counters
MaxConns == 2
MaxBytes == 1
\* number of direct FirewallManager.sync_rules calls, and the length of the
\* rule list of a call
MaxFwSyncs == 2
MaxRules == 2
\* number of apply tasks, pull-loop ticks and force syncs of one agent run,
\* and the largest config_version a fetch returns
MaxApplies == 3
MaxTicks == 2
MaxForceSyncs == 1
MaxVersion == 2
\* the latest time of the agent registry, the largest agent id it gives and
\* the number of agents requests it answers
MaxNow == 2
MaxAgentId == 3
MaxRequests == 4
MaxUdpTime == 2
MaxDatagrams == 2
MaxPasses == 2
MaxReplies == 1

\* ------------------------------------------------------------------------
\* Generic helpers
\* ------------------------------------------------------------------------
SetMax(S) == CHOOSE x \in S : \A y \in S : y <= x

Range(s) == {s[i] : i \in 1..Len(s)}

IsPrefix(p, s) == Len(p) <= Len(s) /\ SubSeq(s, 1, Len(p)) = p

Reverse(s) == [i \in 1..Len(s) |-> s[Len(s) + 1 - i]]

Ascending(s) == \A i \in 1..Len(s) : \A j \in 1..Len(s) : i < j => s[i] < s[j]

\* ========================================================================
\* Controller record store (controller/database/models.py, repositories.py)
\* ========================================================================
VARIABLES
    clock,                \* wall clock of the controller, in half seconds
    firewall_rules,       \* table firewall_rules
    service_assignments,  \* table service_assignments
    services,             \* table services
    blocklist,            \* table blocklist
    connection_stats,     \* table connection_stats
    mutations,            \* number of store requests so far
    store_response,       \* the latest store request and its answer
    create_requests       \* POST /services requests handled side by side

storeVars == <<clock, firewall_rules, service_assignments, services,
               blocklist, connection_stats, mutations, store_response,
               create_requests>>

\* Agent StatsReporter (agent/core/stats_reporter.py)
VARIABLES
    stats_queue,    \* StatsReporter._stats_queue, oldest record first
    report_pc,      \* _report_loop: "sleep", or "posting" inside _send_batch
    in_flight,      \* the local batch of the _send_batch in progress
    recorded,       \* number of record() calls so far; names the records
    delivered,      \* records the controller accepted, in arrival order
    discarded,      \* records the deque dropped to respect maxlen
    lost,           \* records of batches given up after a non-transport error
    last_failed,    \* batch of the latest POST if it failed in transport
    stats_stop      \* StatsReporter.stop(): its position, the queue at the call

statsVars == <<stats_queue, report_pc, in_flight, recorded, delivered,
               discarded, lost, last_failed, stats_stop>>

\* One TCPProxy and its _handle_client tasks (agent/core/tcp_proxy.py)
VARIABLES
    proxy_blocklist,     \* TCPProxy.blocklist
    conns,               \* the accepted connections, in accept order
    active_connections,  \* keys of TCPProxy._active_connections
    listener             \* TCPProxy._server and the position of remove_proxy

connVars == <<proxy_blocklist, conns, active_connections, listener>>

\* FirewallManager and the host's NEKOPROXY chain (agent/core/firewall.py)
VARIABLES
    current_rules,   \* FirewallManager._current_rules
    chain,           \* the rules of the NEKOPROXY chain, in chain order
    fw_sync,         \* the sync_rules call in progress, called directly
    fw_syncs         \* number of direct sync_rules calls so far

fwStateVars == <<current_rules, chain>>
fwVars == <<current_rules, chain, fw_sync, fw_syncs>>

\* ConfigSync, NekoProxyAgent._on_config_update and the proxy managers
\* (agent/core/config_sync.py, agent/main.py, tcp_proxy.py, udp_proxy.py)
VARIABLES
    sync_pc,          \* _sync_loop: "initial" fetch pending, or in its "loop"
    current_version,  \* ConfigSync._current_version
    ticks,            \* polls of the pull loop so far
    force_syncs,      \* force_sync calls so far
    last_fetch,       \* what the latest fetch_config returned, and to whom
    applies,          \* the _on_config_update tasks, in creation order
    tcp_blocklist,    \* TCPProxyManager._blocklist
    udp_blocklist,    \* UDPProxyManager._blocklist
    tcp_proxies,      \* TCPProxyManager._proxies, in insertion order
    udp_proxies,      \* UDPProxyManager._proxies, in insertion order
    tcp_synced,       \* the latest TCP sync_proxies call that returned
    udp_synced        \* the latest UDP sync_proxies call that ended

proxyVars == <<tcp_blocklist, udp_blocklist, tcp_proxies, udp_proxies,
               tcp_synced, udp_synced>>
agentVars == <<sync_pc, current_version, ticks, force_syncs, last_fetch,
               applies, proxyVars>>

\* Agent registry of the controller and the Health Monitor
\* (controller/core/agent_manager.py, health_monitor.py, api/v1/agents.py)
VARIABLES
    agents,     \* table agents
    utcnow,     \* datetime.utcnow() of the controller, in heartbeat timeouts
    monitor,    \* HealthMonitor._check_agents: its position and its session
    heartbeat,  \* the heartbeat request being handled: its session
    response    \* the latest agents request handled, and its response

registryVars == <<agents, utcnow, monitor, heartbeat, response>>

\* One UDPProxy and its client sessions (agent/core/udp_proxy.py)
VARIABLES
    udp_time,            \* time.time()
    protocol_blocklist,  \* UDPProxyProtocol.blocklist
    udp_transport,       \* the listening transport: open, closing, closed
    clients,             \* UDPProxyProtocol._clients: address -> endpoint
    backends,            \* every backend endpoint opened, with its stats
    creating,            \* pending _create_backend_connection tasks
    datagrams,           \* datagram_received calls, per client address
    cleanup_passes       \* passes of _cleanup_loop

udpVars == <<udp_time, protocol_blocklist, udp_transport, clients, backends,
             creating, datagrams, cleanup_passes>>

\* NekoProxyAgent.stop (agent/main.py)
VARIABLES
    agent_stop           \* the component stops begun and returned, in order

shutdownVars == <<agent_stop>>

\* the variables each component leaves alone
nonStoreVars == <<statsVars, connVars, fwVars, agentVars, registryVars,
                  udpVars, shutdownVars>>
nonStatsVars == <<storeVars, connVars, fwVars, agentVars, registryVars,
                  udpVars, shutdownVars>>
nonConnVars == <<storeVars, statsVars, fwVars, agentVars, registryVars,
                  udpVars, shutdownVars>>
nonFwVars == <<storeVars, statsVars, connVars, agentVars, registryVars,
                  udpVars, shutdownVars>>
nonAgentVars == <<storeVars, statsVars, connVars, fw_sync, fw_syncs, registryVars,
                  udpVars, shutdownVars>>
nonRegistryVars == <<storeVars, statsVars, connVars, fwVars, agentVars,
                  udpVars, shutdownVars>>
nonUdpVars == <<storeVars, statsVars, connVars, fwVars, agentVars, registryVars,
                shutdownVars>>

\* NULL in a nullable agent_id column ("all agents")
NoAgent == 0
AgentIds == {1, 2}
AgentRefs == AgentIds \cup {NoAgent}

TicksPerSecond == 2
\* seconds since the epoch at clock 0 (any positive number of seconds)
EpochBase == 1

BlockIps == {"ip1", "ip2"}
ListenPorts == {1, 2}
Protocols == {"tcp", "udp"}

\* int(max_timestamp.timestamp()): a datetime floored to whole seconds
TimestampSeconds(t) == EpochBase + (t \div TicksPerSecond)

\* Column(Integer, primary_key=True): the next row id of a table
NextId(table) == IF table = {} THEN 1 ELSE SetMax({r.id : r \in table}) + 1

\* a filter that leaves out the rows for all agents
ForAgentOwn(table, agent_id) == {r \in table : r.agent_id = agent_id}

\* (X.agent_id == agent_id) | (X.agent_id == None)
ForAgent(table, agent_id) ==
    {r \in table : r.agent_id = agent_id \/ r.agent_id = NoAgent}

\* func.max(column).scalar(): the set is empty when the scalar is None
MaxScalar(table) == IF table = {} THEN {} ELSE {SetMax({r.updated_at : r \in table})}

ComputeConfigVersion(agent_id) ==
    LET firewall_max == MaxScalar(ForAgent(firewall_rules, agent_id))
        assignment_max == MaxScalar(ForAgent(service_assignments, agent_id))
        service_max == MaxScalar(services)
        blocklist_max == MaxScalar(blocklist)
        firewall_count == Cardinality(ForAgent(firewall_rules, agent_id))
        assignment_count == Cardinality(ForAgent(service_assignments, agent_id))
        blocklist_count == Cardinality(blocklist)
        timestamps == firewall_max \cup assignment_max \cup service_max \cup blocklist_max
        count_hash == (firewall_count * 100 + assignment_count * 10 + blocklist_count) % 10000
    IN  IF timestamps = {}
        THEN firewall_count + assignment_count + blocklist_count + 1
        ELSE TimestampSeconds(SetMax(timestamps)) * 10000 + count_hash

\* the ids a request can name in its path or its body
RowIds == 1..MaxRows + 1

\* Service.name; no model constrains it, the empty string included
ServiceNames == {"", "web"}

\* ServiceUpdate bodies: each field is None (the empty set) or a value
ServiceUpdates ==
    {[name |-> n, listen_port |-> {}, protocol |-> {}] : n \in {{x} : x \in ServiceNames}}
    \cup {[name |-> {}, listen_port |-> {p}, protocol |-> {}] : p \in ListenPorts}
    \cup {[name |-> {}, listen_port |-> {}, protocol |-> {pr}] : pr \in Protocols}
    \cup {[name |-> {"web"}, listen_port |-> {p}, protocol |-> {}] : p \in ListenPorts}

\* ServiceAssignmentUpdate bodies: each field is unset (the empty set) or a
\* value; agent_id can be set to null
AssignmentUpdates ==
    {[service_id |-> {x}, agent_id |-> {}, enabled |-> {}] : x \in RowIds}
    \cup {[service_id |-> {}, agent_id |-> {x}, enabled |-> {}] : x \in AgentRefs}
    \cup {[service_id |-> {}, agent_id |-> {}, enabled |-> {x}] : x \in BOOLEAN}
    \cup {[service_id |-> {}, agent_id |-> {x}, enabled |-> {FALSE}] : x \in AgentRefs}

\* value if value is not None else current
OrElse(value, current) == IF value = {} THEN current ELSE CHOOSE x \in value : TRUE

\* ServiceRepository.get_by_name
GetByName(name) == {s \in services : s.name = name}

\* ServiceRepository.get_by_listen_port
GetByListenPort(listen_port, protocol) ==
    {s \in services : s.listen_port = listen_port /\ s.protocol = protocol}

\* ServiceAssignmentRepository.exists
Exists(service_id, agent_id) ==
    \E a \in service_assignments : a.service_id = service_id /\ a.agent_id = agent_id

NoStoreResponse == [op |-> "none", id |-> 0, body |-> <<>>, status |-> 0]

\* no POST /services request in this slot
NoCreate == [pc |-> "none", body |-> <<>>, status |-> 0]

StoreInit ==
    /\ clock = 0
    /\ firewall_rules = {}
    /\ service_assignments = {}
    /\ services = {}
    /\ blocklist = {}
    /\ connection_stats = {}
    /\ mutations = 0
    /\ store_response = NoStoreResponse
    /\ create_requests = [r \in 1..MaxCreates |-> NoCreate]

\* the controller's clock advances
ClockTick ==
    /\ clock < MaxClock
    /\ clock' = clock + 1
    /\ UNCHANGED <<firewall_rules, service_assignments, services, blocklist,
                   connection_stats, mutations, store_response, create_requests>>
    /\ UNCHANGED nonStoreVars

\* one more request handled, within a bound
MutateWithin(bound) ==
    /\ mutations < bound
    /\ mutations' = mutations + 1
    /\ UNCHANGED <<clock, create_requests>>
    /\ UNCHANGED nonStoreVars

Mutate == MutateWithin(MaxMutations)

\* the answer to a request of the store: the operation, the id of its path,
\* the body received (of the service requests and the creates) and the HTTP
\* status
Answer(op, id, body, status) ==
    store_response' = [op |-> op, id |-> id, body |-> body, status |-> status]

\* POST /api/v1/firewall behind its checks: FirewallRuleRepository.create
FirewallRuleCreate(agent_id, enabled) ==
    /\ Mutate
    /\ Cardinality(firewall_rules) < MaxRows
    /\ firewall_rules' = firewall_rules \cup
          {[id |-> NextId(firewall_rules), agent_id |-> agent_id,
            enabled |-> enabled, updated_at |-> clock]}
    /\ Answer("firewall_create", 0, <<>>, 201)
    /\ UNCHANGED <<service_assignments, services, blocklist, connection_stats>>

\* FirewallRuleRepository.update: the row is rewritten and onupdate stamps it
FirewallRuleUpdate(rule_id, enabled) ==
    /\ Mutate
    /\ \E r \in firewall_rules :
          /\ r.id = rule_id
          /\ r.enabled # enabled
          /\ firewall_rules' = (firewall_rules \ {r}) \cup
                {[r EXCEPT !.enabled = enabled, !.updated_at = clock]}
    /\ Answer("firewall_update", rule_id, <<>>, 200)
    /\ UNCHANGED <<service_assignments, services, blocklist, connection_stats>>

\* FirewallRuleRepository.delete
FirewallRuleDelete(rule_id) ==
    /\ Mutate
    /\ \E r \in firewall_rules :
          /\ r.id = rule_id
          /\ firewall_rules' = firewall_rules \ {r}
    /\ Answer("firewall_delete", rule_id, <<>>, 200)
    /\ UNCHANGED <<service_assignments, services, blocklist, connection_stats>>

\* POST /api/v1/services: create_service
ServiceCreate(name, listen_port, protocol) ==
    LET body == [name |-> name, listen_port |-> listen_port, protocol |-> protocol]
    IN  /\ Mutate
        /\ IF GetByName(name) # {} \/ GetByListenPort(listen_port, protocol) # {}
           THEN /\ Answer("service_create", 0, body, 400)
                /\ UNCHANGED services
           ELSE /\ Cardinality(services) < MaxRows
                /\ services' = services \cup
                      {[id |-> NextId(services), name |-> name, listen_port |-> listen_port,
                        protocol |-> protocol, updated_at |-> clock]}
                /\ Answer("service_create", NextId(services), body, 201)
        /\ UNCHANGED <<firewall_rules, service_assignments, blocklist, connection_stats>>

\* create_service of a request in a worker thread, up to the end of its two
\* checks (get_by_name, get_by_listen_port): 400, or the checks passed
CreateServiceCheck(r, name, listen_port, protocol) ==
    /\ create_requests[r].pc = "none"
    /\ LET body == [name |-> name, listen_port |-> listen_port, protocol |-> protocol]
       IN  create_requests' = [create_requests EXCEPT ![r] =
              IF GetByName(name) # {} \/ GetByListenPort(listen_port, protocol) # {}
              THEN [pc |-> "answered", body |-> body, status |-> 400]
              ELSE [pc |-> "checked", body |-> body, status |-> 0]]
    /\ UNCHANGED <<clock, firewall_rules, service_assignments, services, blocklist,
                   connection_stats, mutations, store_response>>
    /\ UNCHANGED nonStoreVars

\* ServiceRepository.create of a request whose checks passed: INSERT and
\* commit; the unique index of services.name rejects a second row of a
\* name (IntegrityError, HTTP 500), no index covers (listen_port, protocol)
CreateServiceInsert(r) ==
    /\ create_requests[r].pc = "checked"
    /\ LET body == create_requests[r].body
       IN  IF GetByName(body.name) # {}
           THEN /\ create_requests' = [create_requests EXCEPT ![r] =
                       [pc |-> "answered", body |-> body, status |-> 500]]
                /\ UNCHANGED services
           ELSE /\ create_requests' = [create_requests EXCEPT ![r] =
                       [pc |-> "answered", body |-> body, status |-> 201]]
                /\ services' = services \cup
                      {[id |-> NextId(services), name |-> body.name,
                        listen_port |-> body.listen_port,
                        protocol |-> body.protocol, updated_at |-> clock]}
    /\ UNCHANGED <<clock, firewall_rules, service_assignments, blocklist,
                   connection_stats, mutations, store_response>>
    /\ UNCHANGED nonStoreVars

\* if service_update.name: the check is skipped for None and for ""
NameGiven(service_update) == service_update.name \notin {{}, {""}}

\* update_service: the name check found another service of that name
NameTaken(service_id, service_update) ==
    /\ NameGiven(service_update)
    /\ \E s \in GetByName(OrElse(service_update.name, "")) : s.id # service_id

\* update_service: the port check found another service on that port
PortTaken(existing, service_update) ==
    /\ service_update.listen_port # {} \/ service_update.protocol # {}
    /\ \E s \in GetByListenPort(OrElse(service_update.listen_port, existing.listen_port),
                                OrElse(service_update.protocol, existing.protocol)) :
            s.id # existing.id

\* ServiceRepository.update: every field that is not None is assigned
ServiceUpdated(existing, service_update) ==
    [existing EXCEPT !.name = OrElse(service_update.name, @),
                     !.listen_port = OrElse(service_update.listen_port, @),
                     !.protocol = OrElse(service_update.protocol, @)]

\* PUT /api/v1/services/{service_id}: update_service; the UPDATE of a name
\* another row has fails on the unique index of services.name (HTTP 500),
\* and an UPDATE is issued, and updated_at stamped, only for a change
ServiceUpdate(service_id, service_update) ==
    /\ Mutate
    /\ LET found == {s \in services : s.id = service_id}
       IN  IF found = {}
           THEN /\ Answer("service_update", service_id, service_update, 404)
                /\ UNCHANGED services
           ELSE LET existing == CHOOSE s \in found : TRUE
                    updated == ServiceUpdated(existing, service_update)
                IN  IF NameTaken(service_id, service_update)
                       \/ PortTaken(existing, service_update)
                    THEN /\ Answer("service_update", service_id, service_update, 400)
                         /\ UNCHANGED services
                    ELSE IF \E s \in services \ {existing} : s.name = updated.name
                    THEN /\ Answer("service_update", service_id, service_update, 500)
                         /\ UNCHANGED services
                    ELSE /\ Answer("service_update", service_id, service_update, 200)
                         /\ services' = (services \ {existing}) \cup
                               {IF updated = existing THEN existing
                                ELSE [updated EXCEPT !.updated_at = clock]}
    /\ UNCHANGED <<firewall_rules, service_assignments, blocklist, connection_stats>>

\* ServiceRepository.delete; relationship(cascade="all, delete-orphan")
\* deletes the assignments and the connection stats of the service with it
ServiceDelete(service_id) ==
    /\ Mutate
    /\ \E s \in services :
          /\ s.id = service_id
          /\ services' = services \ {s}
    /\ service_assignments' = {a \in service_assignments : a.service_id # service_id}
    /\ connection_stats' = {c \in connection_stats : c.service_id # service_id}
    /\ Answer("service_delete", service_id, <<>>, 200)
    /\ UNCHANGED <<firewall_rules, blocklist>>

\* POST /api/v1/assignments: create_assignment
AssignmentCreate(service_id, agent_id, enabled) ==
    LET body == [service_id |-> service_id, agent_id |-> agent_id, enabled |-> enabled]
    IN  /\ Mutate
        /\ IF \/ \A s \in services : s.id # service_id
              \/ agent_id # NoAgent /\ \A a \in agents : a.id # agent_id
              \/ Exists(service_id, agent_id)
           THEN /\ Answer("assignment_create", 0, body, 400)
                /\ UNCHANGED service_assignments
           ELSE /\ Cardinality(service_assignments) < MaxRows
                /\ service_assignments' = service_assignments \cup
                      {[id |-> NextId(service_assignments), service_id |-> service_id,
                        agent_id |-> agent_id, enabled |-> enabled, updated_at |-> clock]}
                /\ Answer("assignment_create", NextId(service_assignments), body, 201)
        /\ UNCHANGED <<firewall_rules, services, blocklist, connection_stats>>

\* ServiceAssignmentRepository.update: every field that was set is assigned
AssignmentUpdated(existing, assignment_update) ==
    [existing EXCEPT !.service_id = OrElse(assignment_update.service_id, @),
                     !.agent_id = OrElse(assignment_update.agent_id, @),
                     !.enabled = OrElse(assignment_update.enabled, @)]

\* PUT /api/v1/assignments/{assignment_id}: update_assignment
AssignmentUpdate(assignment_id, assignment_update) ==
    /\ MutateWithin(MaxMutationsWithUpdate)
    /\ LET found == {a \in service_assignments : a.id = assignment_id}
       IN  IF found = {}
           THEN /\ Answer("assignment_update", assignment_id, <<>>, 404)
                /\ UNCHANGED service_assignments
           ELSE LET existing == CHOOSE a \in found : TRUE
                    updated == AssignmentUpdated(existing, assignment_update)
                IN  IF \/ /\ assignment_update.service_id # {}
                          /\ \A s \in services : {s.id} # assignment_update.service_id
                       \/ /\ assignment_update.agent_id \notin {{}, {NoAgent}}
                          /\ \A a \in agents : {a.id} # assignment_update.agent_id
                    THEN /\ Answer("assignment_update", assignment_id, <<>>, 400)
                         /\ UNCHANGED service_assignments
                    ELSE /\ Answer("assignment_update", assignment_id, <<>>, 200)
                         /\ service_assignments' = (service_assignments \ {existing}) \cup
                               {IF updated = existing THEN existing
                                ELSE [updated EXCEPT !.updated_at = clock]}
    /\ UNCHANGED <<firewall_rules, services, blocklist, connection_stats>>

\* ServiceAssignmentRepository.delete
AssignmentDelete(assignment_id) ==
    /\ Mutate
    /\ \E a \in service_assignments :
          /\ a.id = assignment_id
          /\ service_assignments' = service_assignments \ {a}
    /\ Answer("assignment_delete", assignment_id, <<>>, 200)
    /\ UNCHANGED <<firewall_rules, services, blocklist, connection_stats>>

\* BlocklistRepository.add behind add_to_blocklist's is_blocked check
BlocklistAdd(ip) ==
    /\ Mutate
    /\ \A e \in blocklist : e.ip # ip
    /\ blocklist' = blocklist \cup
          {[id |-> NextId(blocklist), ip |-> ip, updated_at |-> clock]}
    /\ Answer("blocklist_add", 0, <<>>, 201)
    /\ UNCHANGED <<firewall_rules, service_assignments, services, connection_stats>>

\* BlocklistRepository.remove
BlocklistRemove(ip) ==
    /\ Mutate
    /\ \E e \in blocklist :
          /\ e.ip = ip
          /\ blocklist' = blocklist \ {e}
    /\ Answer("blocklist_remove", 0, <<>>, 200)
    /\ UNCHANGED <<firewall_rules, service_assignments, services, connection_stats>>

\* POST /api/v1/stats/connections: report_connections with one connection;
\* neither report.agent_id nor conn.service_id is looked up
ReportConnections(agent_id, service_id) ==
    /\ Mutate
    /\ Cardinality(connection_stats) < MaxRows
    /\ connection_stats' = connection_stats \cup
          {[id |-> NextId(connection_stats), agent_id |-> agent_id,
            service_id |-> service_id]}
    /\ Answer("report_connections", 0, <<>>, 200)
    /\ UNCHANGED <<firewall_rules, service_assignments, services, blocklist>>

StoreNext ==
    \/ ClockTick
    \/ \E a \in AgentRefs, en \in BOOLEAN : FirewallRuleCreate(a, en)
    \/ \E id \in RowIds, en \in BOOLEAN : FirewallRuleUpdate(id, en)
    \/ \E id \in RowIds : FirewallRuleDelete(id)
    \/ \E n \in ServiceNames, p \in ListenPorts, pr \in Protocols : ServiceCreate(n, p, pr)
    \/ \E id \in RowIds, u \in ServiceUpdates : ServiceUpdate(id, u)
    \/ \E id \in RowIds : ServiceDelete(id)
    \/ \E s \in RowIds, a \in AgentRefs, en \in BOOLEAN : AssignmentCreate(s, a, en)
    \/ \E id \in RowIds, u \in AssignmentUpdates : AssignmentUpdate(id, u)
    \/ \E id \in RowIds : AssignmentDelete(id)
    \/ \E ip \in BlockIps : BlocklistAdd(ip)
    \/ \E ip \in BlockIps : BlocklistRemove(ip)

\* the worker threads of the controller handle POST /services requests
\* side by side
CreateServiceNext ==
    \/ ClockTick
    \/ \E r \in 1..MaxCreates, n \in ServiceNames, p \in ListenPorts, pr \in Protocols :
          CreateServiceCheck(r, n, p, pr)
    \/ \E r \in 1..MaxCreates : CreateServiceInsert(r)

\* ========================================================================
\* Agent StatsReporter (agent/core/stats_reporter.py)
\* ========================================================================
\* deque(maxlen=...).append: a full deque discards its leftmost item first
DequeAppendDropNewest(q, x) ==
    IF Len(q) >= QueueMaxLen THEN q ELSE Append(q, x)

DequeAppend(q, x) ==
    IF Len(q) >= QueueMaxLen THEN Append(Tail(q), x) ELSE Append(q, x)

\* deque(maxlen=...).appendleft: a full deque discards its rightmost item first
DequeAppendLeft(q, x) ==
    IF Len(q) >= QueueMaxLen THEN <<x>> \o SubSeq(q, 1, Len(q) - 1) ELSE <<x>> \o q

\* for stat in <order>: self._stats_queue.appendleft(stat)
RECURSIVE AppendLeftAll(_, _)
AppendLeftAll(q, order) ==
    IF order = <<>> THEN q
    ELSE AppendLeftAll(DequeAppendLeft(q, Head(order)), Tail(order))

RequeueForward(q, batch) == AppendLeftAll(q, batch)

\* for stat in reversed(batch): self._stats_queue.appendleft(stat)
Requeue(q, batch) == AppendLeftAll(q, Reverse(batch))

\* StatsReporter.stop() has not been called
NotStopped == [pc |-> "running", at_stop |-> <<>>, in_flight |-> <<>>, outcome |-> "none"]

\* _report_loop after its _send_batch returned: while self._running
AfterSendBatch == IF stats_stop.pc = "running" THEN "sleep" ELSE "ended"

\* batch.append(self._stats_queue.popleft()) while len(batch) < stats_batch_size
BatchLen(queue) == IF Len(queue) < BatchSize THEN Len(queue) ELSE BatchSize

StatsInit ==
    /\ stats_queue = <<>>
    /\ report_pc = "sleep"
    /\ in_flight = <<>>
    /\ recorded = 0
    /\ delivered = <<>>
    /\ discarded = {}
    /\ lost = {}
    /\ last_failed = <<>>
    /\ stats_stop = NotStopped

\* StatsReporter.record, called by a proxy when a flow ends
Record ==
    /\ recorded < MaxRecords
    /\ recorded' = recorded + 1
    /\ stats_queue' = DequeAppend(stats_queue, recorded + 1)
    /\ discarded' = discarded \cup
          ((Range(stats_queue) \cup {recorded + 1}) \ Range(stats_queue'))
    /\ UNCHANGED <<report_pc, in_flight, delivered, lost, last_failed>>
    /\ UNCHANGED stats_stop
    /\ UNCHANGED nonStatsVars

\* _send_batch up to the POST: collect the batch from the head of the queue
\* (on an empty queue _send_batch returns at once and changes nothing)
SendBatchCollect ==
    /\ report_pc = "sleep"
    /\ stats_queue # <<>>
    /\ LET n == BatchLen(stats_queue)
       IN  /\ in_flight' = SubSeq(stats_queue, 1, n)
           /\ stats_queue' = SubSeq(stats_queue, n + 1, Len(stats_queue))
    /\ report_pc' = "posting"
    /\ UNCHANGED <<recorded, delivered, discarded, lost, last_failed>>
    /\ UNCHANGED stats_stop
    /\ UNCHANGED nonStatsVars

\* the POST returned 2xx
PostOk ==
    /\ report_pc = "posting"
    /\ delivered' = delivered \o in_flight
    /\ in_flight' = <<>>
    /\ last_failed' = <<>>
    /\ report_pc' = AfterSendBatch
    /\ UNCHANGED <<stats_queue, recorded, discarded, lost>>
    /\ UNCHANGED stats_stop
    /\ UNCHANGED nonStatsVars

\* except httpx.RequestError: put the batch back
PostTransportError ==
    /\ report_pc = "posting"
    /\ stats_queue' = Requeue(stats_queue, in_flight)
    /\ discarded' = discarded \cup
          ((Range(stats_queue) \cup Range(in_flight)) \ Range(stats_queue'))
    /\ last_failed' = in_flight
    /\ in_flight' = <<>>
    /\ report_pc' = AfterSendBatch
    /\ UNCHANGED <<recorded, delivered, lost>>
    /\ UNCHANGED stats_stop
    /\ UNCHANGED nonStatsVars

\* except Exception (raise_for_status on a non-2xx response): log only
PostOtherError ==
    /\ report_pc = "posting"
    /\ lost' = lost \cup Range(in_flight)
    /\ in_flight' = <<>>
    /\ last_failed' = <<>>
    /\ report_pc' = AfterSendBatch
    /\ UNCHANGED <<stats_queue, recorded, delivered, discarded>>
    /\ UNCHANGED stats_stop
    /\ UNCHANGED nonStatsVars

\* self._task.cancel() and await self._task in stop(): a loop suspended in
\* its POST loses the batch it carries (the request is abandoned; the
\* records are not put back), a loop that has ended stays ended
CancelledLoop == IF report_pc = "ended" THEN "ended" ELSE "cancelled"

\* StatsReporter.stop() up to the POST of its _send_batch: _running = False,
\* one batch is collected; on an empty queue _send_batch returns at once and
\* stop() goes on to cancel the loop and returns
StatsStopBegin ==
    /\ stats_stop.pc = "running"
    /\ IF stats_queue = <<>>
       THEN /\ stats_stop' = [stats_stop EXCEPT !.pc = "stopped"]
            /\ report_pc' = CancelledLoop
            /\ lost' = lost \cup Range(in_flight)
            /\ in_flight' = <<>>
            /\ UNCHANGED stats_queue
       ELSE /\ stats_stop' = [stats_stop EXCEPT
                   !.pc = "posting", !.at_stop = stats_queue,
                   !.in_flight = SubSeq(stats_queue, 1, BatchLen(stats_queue))]
            /\ stats_queue' = SubSeq(stats_queue, BatchLen(stats_queue) + 1,
                                     Len(stats_queue))
            /\ UNCHANGED <<report_pc, lost, in_flight>>
    /\ UNCHANGED <<recorded, delivered, discarded, last_failed>>

StatsStop ==
    /\ StatsStopBegin
    /\ UNCHANGED nonStatsVars

\* the POST of stop()'s _send_batch returned (2xx, httpx.RequestError, or
\* another exception); stop() then cancels the loop, closes the client and
\* returns
StatsStopEnd(outcome) ==
    /\ stats_stop.pc = "posting"
    /\ stats_stop' = [stats_stop EXCEPT !.pc = "stopped", !.in_flight = <<>>,
                                        !.outcome = outcome]
    /\ delivered' = IF outcome = "ok" THEN delivered \o stats_stop.in_flight
                    ELSE delivered
    /\ stats_queue' = IF outcome = "transport_error"
                      THEN Requeue(stats_queue, stats_stop.in_flight)
                      ELSE stats_queue
    /\ discarded' = IF outcome = "transport_error"
                    THEN discarded \cup
                            ((Range(stats_queue) \cup Range(stats_stop.in_flight))
                                \ Range(stats_queue'))
                    ELSE discarded
    /\ lost' = lost \cup Range(in_flight) \cup
                 IF outcome = "error" THEN Range(stats_stop.in_flight) ELSE {}
    /\ in_flight' = <<>>
    /\ report_pc' = CancelledLoop
    /\ UNCHANGED <<recorded, last_failed>>

StatsStopPosted(outcome) ==
    /\ StatsStopEnd(outcome)
    /\ UNCHANGED nonStatsVars

StatsNext ==
    \/ Record
    \/ SendBatchCollect
    \/ PostOk
    \/ PostTransportError
    \/ PostOtherError

\* ========================================================================
\* TCPProxy._handle_client (agent/core/tcp_proxy.py)
\* ========================================================================
ClientIps == BlockIps

\* client_ip in self.blocklist
IsBlockedNever(client_ip, bl) == FALSE

IsBlocked(client_ip, bl) == client_ip \in bl

\* what await asyncio.wait_for(asyncio.open_connection(...), timeout) can
\* raise: the timeout elapsed, the backend refused, any other exception
ConnectFailures == {"TimeoutError", "ConnectionRefusedError", "OSError"}

NoFailure == "none"

\* ConnectionStats(...) for a new connection, with the handler's position
\* and what has happened to its sockets and to its stat so far
NewConnection(client_ip) ==
    [client_ip |-> client_ip,
     pc |-> "accepted",
     status |-> "connected",
     bytes_sent |-> 0,
     bytes_received |-> 0,
     listed_at_accept |-> client_ip \in proxy_blocklist,
     failure |-> NoFailure,
     backend_opened |-> FALSE,
     c2b |-> "none",
     b2c |-> "none",
     client_closed |-> FALSE,
     backend_closed |-> FALSE,
     emitted |-> <<>>]

\* self.on_connection(stats): the statuses handed to the callback
Emit(c) == [c EXCEPT !.emitted = Append(@, c.status)]

ConnInit ==
    /\ proxy_blocklist = {}
    /\ conns = <<>>
    /\ active_connections = {}
    /\ listener = [serving |-> TRUE, remove_proxy |-> "idle"]

\* TCPProxy.update_blocklist
ProxyUpdateBlocklist(bl) ==
    /\ bl # proxy_blocklist
    /\ proxy_blocklist' = bl
    /\ UNCHANGED <<conns, active_connections, listener>>
    /\ UNCHANGED nonConnVars

\* _handle_client from its start to its first await: register the
\* connection, check the blocklist, then close the client (blocked) or
\* start connecting to the backend
HandleClient(client_ip) ==
    /\ listener.serving
    /\ Len(conns) < MaxConns
    /\ LET c == NewConnection(client_ip)
       IN  conns' = Append(conns,
              IF IsBlocked(client_ip, proxy_blocklist)
              THEN [c EXCEPT !.status = "blocked", !.client_closed = TRUE,
                             !.pc = "blocked_wait_closed"]
              ELSE [c EXCEPT !.pc = "connecting"])
    /\ active_connections' = active_connections \cup {Len(conns) + 1}
    /\ UNCHANGED <<proxy_blocklist, listener>>
    /\ UNCHANGED nonConnVars

\* blocked path: await writer.wait_closed() returned
BlockedClosed(i) ==
    /\ conns[i].pc = "blocked_wait_closed"
    /\ active_connections' = active_connections \ {i}
    /\ conns' = [conns EXCEPT ![i] = [Emit(@) EXCEPT !.pc = "done"]]
    /\ UNCHANGED <<proxy_blocklist, listener>>
    /\ UNCHANGED nonConnVars

\* an await writer.wait_closed() raised (the transport was lost with an
\* error): the exception leaves _handle_client
CloseRaised(i) ==
    /\ conns[i].pc \in {"blocked_wait_closed", "cleanup_client", "cleanup_backend"}
    /\ conns' = [conns EXCEPT ![i].pc = "raised"]
    /\ UNCHANGED <<proxy_blocklist, active_connections, listener>>
    /\ UNCHANGED nonConnVars

\* asyncio.open_connection succeeded: the two _forward_data tasks start
ConnectOk(i) ==
    /\ conns[i].pc = "connecting"
    /\ conns' = [conns EXCEPT ![i].backend_opened = TRUE,
                              ![i].c2b = "running", ![i].b2c = "running",
                              ![i].pc = "forwarding"]
    /\ UNCHANGED <<proxy_blocklist, active_connections, listener>>
    /\ UNCHANGED nonConnVars

\* the except clauses of _handle_client, in their order
StatusOfFailureAlwaysError(failure) == "error"

StatusOfFailure(failure) ==
    IF failure = "TimeoutError" THEN "timeout"
    ELSE IF failure = "ConnectionRefusedError" THEN "refused"
    ELSE "error"

\* the connect raised: the matching except clause sets the status, then
\* finally closes the client
ConnectFailed(i, failure) ==
    /\ conns[i].pc = "connecting"
    /\ conns' = [conns EXCEPT ![i].failure = failure,
                              ![i].status = StatusOfFailure(failure),
                              ![i].client_closed = TRUE,
                              ![i].pc = "cleanup_client"]
    /\ UNCHANGED <<proxy_blocklist, active_connections, listener>>
    /\ UNCHANGED nonConnVars

\* _forward_data: one chunk read, written and counted
ForwardData(i, direction) ==
    /\ conns[i].pc = "forwarding"
    /\ conns[i][direction] = "running"
    /\ IF direction = "c2b"
       THEN /\ conns[i].bytes_sent < MaxBytes
            /\ conns' = [conns EXCEPT ![i].bytes_sent = @ + 1]
       ELSE /\ conns[i].bytes_received < MaxBytes
            /\ conns' = [conns EXCEPT ![i].bytes_received = @ + 1]
    /\ UNCHANGED <<proxy_blocklist, active_connections, listener>>
    /\ UNCHANGED nonConnVars

\* _forward_data returns: read() gave no data, or read/write/drain raised
ForwardEnded(i, direction) ==
    /\ conns[i].pc = "forwarding"
    /\ conns[i][direction] = "running"
    /\ conns' = [conns EXCEPT ![i][direction] = "done"]
    /\ UNCHANGED <<proxy_blocklist, active_connections, listener>>
    /\ UNCHANGED nonConnVars

\* task.cancel() and await task for each pending task
CancelPending(task) == IF task = "running" THEN "cancelled" ELSE task

\* asyncio.wait(FIRST_COMPLETED) returned: the pending tasks are cancelled,
\* status "completed", then finally closes the client
ForwardCompleted(i) ==
    /\ conns[i].pc = "forwarding"
    /\ "done" \in {conns[i].c2b, conns[i].b2c}
    /\ conns' = [conns EXCEPT ![i].c2b = CancelPending(@),
                              ![i].b2c = CancelPending(@),
                              ![i].status = "completed",
                              ![i].client_closed = TRUE,
                              ![i].pc = "cleanup_client"]
    /\ UNCHANGED <<proxy_blocklist, active_connections, listener>>
    /\ UNCHANGED nonConnVars

\* the end of the finally block: unregister the connection, emit the stat
Finish(c) == [Emit(c) EXCEPT !.pc = "done"]

\* finally: await writer.wait_closed() returned; close the backend writer
\* if there is one, else finish
ClientClosed(i) ==
    /\ conns[i].pc = "cleanup_client"
    /\ IF conns[i].backend_opened
       THEN /\ conns' = [conns EXCEPT ![i].backend_closed = TRUE,
                                      ![i].pc = "cleanup_backend"]
            /\ UNCHANGED active_connections
       ELSE /\ conns' = [conns EXCEPT ![i] = Finish(@)]
            /\ active_connections' = active_connections \ {i}
    /\ UNCHANGED <<proxy_blocklist, listener>>
    /\ UNCHANGED nonConnVars

\* finally: await backend_writer.wait_closed() returned
BackendClosed(i) ==
    /\ conns[i].pc = "cleanup_backend"
    /\ conns' = [conns EXCEPT ![i] = Finish(@)]
    /\ active_connections' = active_connections \ {i}
    /\ UNCHANGED <<proxy_blocklist, listener>>
    /\ UNCHANGED nonConnVars

\* TCPProxyManager.remove_proxy up to the await in TCPProxy.stop:
\* self._server.close() closes the listening socket
RemoveProxyStart ==
    /\ listener.remove_proxy = "idle"
    /\ listener' = [serving |-> FALSE, remove_proxy |-> "wait_closed"]
    /\ UNCHANGED <<proxy_blocklist, conns, active_connections>>
    /\ UNCHANGED nonConnVars

\* await self._server.wait_closed() returned, the serve_forever task is
\* cancelled and awaited, the proxy leaves _proxies. Neither call touches
\* the _handle_client tasks; wait_closed of a closed server returns at
\* once before Python 3.12 and when the client transports are gone from
\* 3.12 on, so it can return in any state of the handlers
RemoveProxyReturn ==
    /\ listener.remove_proxy = "wait_closed"
    /\ listener' = [listener EXCEPT !.remove_proxy = "returned"]
    /\ UNCHANGED <<proxy_blocklist, conns, active_connections>>
    /\ UNCHANGED nonConnVars

ConnNext ==
    \/ \E bl \in SUBSET ClientIps : ProxyUpdateBlocklist(bl)
    \/ \E ip \in ClientIps : HandleClient(ip)
    \/ \E i \in 1..Len(conns) : BlockedClosed(i)
    \/ \E i \in 1..Len(conns) : CloseRaised(i)
    \/ \E i \in 1..Len(conns) : ConnectOk(i)
    \/ \E i \in 1..Len(conns), failure \in ConnectFailures : ConnectFailed(i, failure)
    \/ \E i \in 1..Len(conns), d \in {"c2b", "b2c"} : ForwardData(i, d)
    \/ \E i \in 1..Len(conns), d \in {"c2b", "b2c"} : ForwardEnded(i, d)
    \/ \E i \in 1..Len(conns) : ForwardCompleted(i)
    \/ \E i \in 1..Len(conns) : ClientClosed(i)
    \/ \E i \in 1..Len(conns) : BackendClosed(i)
    \/ RemoveProxyStart
    \/ RemoveProxyReturn

\* ========================================================================
\* FirewallManager (agent/core/firewall.py)
\* ========================================================================
\* the host: the devices that exist and the device of the default route
ExistingInterfaces == {"eth0", "wg0"}
DefaultRouteDevice == "eth0"
Unresolved == "none"

\* the values of FirewallRuleResponse.interface in the model: a symbolic
\* name, a device that exists, a device that does not
RuleInterfaces == {"public", "eth0", "tun9"}
FirewallActions == {"allow", "block"}

FirewallRuleResponses ==
    [port : {1}, protocol : {"tcp"}, interface : RuleInterfaces,
     action : FirewallActions, enabled : BOOLEAN]

\* the rule lists a controller can send: (port, protocol, interface) is
\* unique among the firewall rules
RuleLists ==
    {rs \in UNION {[1..n -> FirewallRuleResponses] : n \in 0..MaxRules} :
        \A i \in 1..Len(rs) : \A j \in 1..Len(rs) :
            i # j => <<rs[i].port, rs[i].protocol, rs[i].interface>>
                     # <<rs[j].port, rs[j].protocol, rs[j].interface>>}

\* FirewallManager._get_interface_for_type on this host: the interfaces of
\* the host do not change, so the answer is a function of the type; the
\* subprocess calls it awaits are not steps of the model
GetInterfaceForType(interface_type) ==
    IF interface_type = "wireguard"
    THEN IF "wg0" \in ExistingInterfaces THEN "wg0"
         ELSE IF "wg1" \in ExistingInterfaces THEN "wg1"
         ELSE IF "wg-tunnel" \in ExistingInterfaces THEN "wg-tunnel"
         ELSE Unresolved
    ELSE IF interface_type = "public"
    THEN DefaultRouteDevice
    ELSE IF interface_type \in ExistingInterfaces THEN interface_type
    ELSE Unresolved

\* FirewallManager._rule_to_key
RuleToKey(rule) ==
    [port |-> rule.port, protocol |-> rule.protocol,
     interface |-> rule.interface, action |-> rule.action]

\* the chain entry that _add_rule appends and _remove_rule deletes
ChainEntry(key, interface) ==
    [interface |-> interface, protocol |-> key.protocol, port |-> key.port,
     target |-> IF key.action = "block" THEN "DROP" ELSE "ACCEPT"]

\* sync_rules, first loop: desired_rules as the list of its items,
\* key -> (rule, resolved interface), in insertion order
RECURSIVE DesiredRules(_)
DesiredRules(rules) ==
    IF rules = <<>> THEN <<>>
    ELSE LET rest == DesiredRules(SubSeq(rules, 1, Len(rules) - 1))
             rule == rules[Len(rules)]
             item == [key |-> RuleToKey(rule),
                      interface |-> GetInterfaceForType(rule.interface)]
         IN  IF ~rule.enabled \/ item.interface = Unresolved
                \/ \E k \in 1..Len(rest) : rest[k].key = item.key
             THEN rest
             ELSE Append(rest, item)

DesiredKeys(desired) == {desired[k].key : k \in 1..Len(desired)}

\* iptables -D: delete the first rule of the chain that matches
RECURSIVE DeleteFirst(_, _)
DeleteFirst(ch, entry) ==
    IF ch = <<>> THEN <<>>
    ELSE IF Head(ch) = entry THEN Tail(ch)
    ELSE <<Head(ch)>> \o DeleteFirst(Tail(ch), entry)

FwIdle ==
    [pc |-> "idle", rules |-> <<>>, desired |-> <<>>, rm_todo |-> {},
     cur |-> RuleToKey(CHOOSE r \in FirewallRuleResponses : TRUE), add_next |-> 1]

\* sync_rules from where it stands to its next iptables command: the next
\* key of the removal loop (a set is iterated in any order), else the next
\* desired key that is not in _current_rules, else the end of the call
FwContinue(t, cr) ==
    IF t.rm_todo # {}
    THEN {[t EXCEPT !.pc = "removing", !.cur = k, !.rm_todo = @ \ {k}] : k \in t.rm_todo}
    ELSE LET missing == {j \in t.add_next..Len(t.desired) : t.desired[j].key \notin cr}
         IN  IF missing = {}
             THEN {[t EXCEPT !.pc = "done"]}
             ELSE LET j == CHOOSE x \in missing : \A y \in missing : x <= y
                  IN  {[t EXCEPT !.pc = "adding", !.cur = t.desired[j].key,
                                 !.add_next = j]}

\* sync_rules up to its first iptables command
FwBegin(rules, cr) ==
    LET desired == DesiredRules(rules)
    IN  FwContinue([FwIdle EXCEPT !.pc = "start", !.rules = rules,
                                  !.desired = desired,
                                  !.rm_todo = cr \ DesiredKeys(desired)], cr)

\* the removal loop after _remove_rule returned: the key is discarded
\* whatever the command returned; a key whose interface does not resolve
\* is discarded without a command
FwAfterRemove(t, cr, ch, ok) ==
    LET interface == GetInterfaceForType(t.cur.interface)
        ch2 == IF ok /\ interface # Unresolved
               THEN DeleteFirst(ch, ChainEntry(t.cur, interface)) ELSE ch
        cr2 == cr \ {t.cur}
    IN  {[task |-> t2, current_rules |-> cr2, chain |-> ch2] : t2 \in FwContinue(t, cr2)}

\* the add loop after _add_rule returned: the key is added on success
FwAfterAdd(t, cr, ch, ok) ==
    LET item == t.desired[t.add_next]
        ch2 == IF ok THEN Append(ch, ChainEntry(item.key, item.interface)) ELSE ch
        cr2 == IF ok THEN cr \cup {item.key} ELSE cr
        t1 == [t EXCEPT !.add_next = @ + 1]
    IN  {[task |-> t2, current_rules |-> cr2, chain |-> ch2] : t2 \in FwContinue(t1, cr2)}

\* iptables -D succeeds only when the chain has a matching rule
CanDelete(t, ch) ==
    \E k \in 1..Len(ch) : ch[k] = ChainEntry(t.cur, GetInterfaceForType(t.cur.interface))

FwInit ==
    /\ current_rules = {}
    /\ chain = <<>>
    /\ fw_sync = FwIdle
    /\ fw_syncs = 0

\* FirewallManager.sync_rules(rules), called when no other call is running
FwSyncRules(rules) ==
    /\ fw_sync.pc \in {"idle", "done"}
    /\ fw_syncs < MaxFwSyncs
    /\ fw_syncs' = fw_syncs + 1
    /\ fw_sync' \in FwBegin(rules, current_rules)
    /\ UNCHANGED <<current_rules, chain>>
    /\ UNCHANGED nonFwVars

\* the iptables -D of the removal loop returned
FwRemoveReturned(ok) ==
    /\ fw_sync.pc = "removing"
    /\ ok => CanDelete(fw_sync, chain)
    /\ \E r \in FwAfterRemove(fw_sync, current_rules, chain, ok) :
          /\ fw_sync' = r.task
          /\ current_rules' = r.current_rules
          /\ chain' = r.chain
    /\ UNCHANGED fw_syncs
    /\ UNCHANGED nonFwVars

\* the iptables -A of the add loop returned
FwAddReturned(ok) ==
    /\ fw_sync.pc = "adding"
    /\ \E r \in FwAfterAdd(fw_sync, current_rules, chain, ok) :
          /\ fw_sync' = r.task
          /\ current_rules' = r.current_rules
          /\ chain' = r.chain
    /\ UNCHANGED fw_syncs
    /\ UNCHANGED nonFwVars

FwNext ==
    \/ \E rules \in RuleLists : FwSyncRules(rules)
    \/ \E ok \in BOOLEAN : FwRemoveReturned(ok)
    \/ \E ok \in BOOLEAN : FwAddReturned(ok)

\* ========================================================================
\* ConfigSync (agent/core/config_sync.py), NekoProxyAgent._on_config_update
\* (agent/main.py), TCPProxyManager and UDPProxyManager
\* ========================================================================
\* the keys of the service dicts that _on_config_update hands to the managers
ServiceDictKeys ==
    {"listen_port", "protocol", "backend_host", "backend_port",
     "service_id", "service_name"}

\* the keys of a rule that UDPProxyManager.sync_proxies reads to add a proxy
UdpAddKeys ==
    {"listen_port", "resolved_backend_host", "resolved_backend_port", "service_id"}

\* backend stands for the pair (backend_host, backend_port) of the service
Tcp1 == [listen_port |-> 1, protocol |-> "tcp", backend |-> 1]
Tcp2 == [listen_port |-> 2, protocol |-> "tcp", backend |-> 1]
Udp1 == [listen_port |-> 1, protocol |-> "udp", backend |-> 1]

\* the service of port 1 after its backend was changed on the controller
Tcp1b == [listen_port |-> 1, protocol |-> "tcp", backend |-> 2]

\* AgentConfig.services of the configs the controller returns
ServiceLists ==
    {<<>>, <<Tcp1>>, <<Tcp1b, Tcp2>>, <<Udp1>>}

\* AgentConfig.firewall_rules of the configs the controller returns
AgentRuleLists ==
    {<<>>, <<[port |-> 1, protocol |-> "tcp", interface |-> "public",
              action |-> "block", enabled |-> TRUE]>>}

\* AgentConfig, as fetch_config returns it
Configs ==
    [config_version : 1..MaxVersion, services : ServiceLists,
     blocklist : {{}, {"ip1"}}, firewall_rules : AgentRuleLists]

\* fetch_config returned None
NoConfig ==
    [config_version |-> 0, services |-> <<>>, blocklist |-> {},
     firewall_rules |-> <<>>]

FetchResults == Configs \cup {NoConfig}

\* config.config_version != self._current_version
VersionDiffersGreater(version, current) == version > current

VersionDiffers(version, current) == version # current

\* keys of a manager's _proxies
Ports(table) == {table[k].listen_port : k \in 1..Len(table)}

\* the ports whose proxy in the table has not been stopped
ActiveListeners(table) ==
    {table[k].listen_port : k \in {j \in 1..Len(table) : table[j].running}}

\* {r['listen_port'] for r in rules if r.get('protocol') == protocol}
DesiredPorts(rules, protocol) ==
    {rules[k].listen_port : k \in {j \in 1..Len(rules) : rules[j].protocol = protocol}}

\* list(self._proxies.keys())
KeyList(table) == [k \in 1..Len(table) |-> table[k].listen_port]

\* TCPProxy.stop: _running = False and the server is closed
StopProxy(table, port) ==
    [k \in 1..Len(table) |->
        IF table[k].listen_port = port THEN [table[k] EXCEPT !.running = FALSE]
        ELSE table[k]]

\* del self._proxies[listen_port]
DeleteKey(table, port) == SelectSeq(table, LAMBDA e : e.listen_port # port)

\* a removal loop that stops the listener of the first port of its
\* snapshot, desired or not
TcpRemoveLoopAll(snapshot, desired, table) ==
    IF snapshot = <<>> \/ Head(snapshot) \notin Ports(table)
    THEN [suspended |-> FALSE, rm_snapshot |-> <<>>, rm_port |-> 0, table |-> table]
    ELSE [suspended |-> TRUE, rm_snapshot |-> Tail(snapshot),
          rm_port |-> Head(snapshot), table |-> StopProxy(table, Head(snapshot))]

\* TCPProxyManager.sync_proxies, removal loop, from the ports left in its
\* snapshot to the await inside remove_proxy (suspended) or to its end
RECURSIVE TcpRemoveLoop(_, _, _)
TcpRemoveLoop(snapshot, desired, table) ==
    IF snapshot = <<>>
    THEN [suspended |-> FALSE, rm_snapshot |-> <<>>, rm_port |-> 0, table |-> table]
    ELSE IF Head(snapshot) \in desired \/ Head(snapshot) \notin Ports(table)
    THEN TcpRemoveLoop(Tail(snapshot), desired, table)
    ELSE [suspended |-> TRUE, rm_snapshot |-> Tail(snapshot),
          rm_port |-> Head(snapshot), table |-> StopProxy(table, Head(snapshot))]

\* the ports that another program of the host may hold, so that
\* asyncio.start_server raises OSError for them
BindMayFail == {2}

\* TCPProxy(...) / UDPProxy(...) as add_proxy makes it: blocklist is the
\* manager's _blocklist (`blocklist or set()` has the same members), bound
\* tells whether start() got its socket
NewProxy(rule, bl, bound) ==
    [listen_port |-> rule.listen_port, running |-> TRUE,
     backend |-> rule.backend, blocklist |-> bl, bound |-> bound]

\* an update_blocklist that replaces the manager's set only
UpdateBlocklistManagerOnly(table, bl) == table

\* update_blocklist of a manager, the loop over self._proxies.values()
UpdateBlocklist(table, bl) ==
    [k \in 1..Len(table) |-> [table[k] EXCEPT !.blocklist = bl]]

\* an add loop that starts a proxy for every TCP rule, listening or not
TcpAddLoopAlways(rules, table, bl, failing) ==
    LET tcp == SelectSeq(rules, LAMBDA r : r.protocol = "tcp")
    IN  table \o [k \in 1..Len(tcp) |->
                     NewProxy(tcp[k], bl, tcp[k].listen_port \notin failing)]

\* TCPProxyManager.sync_proxies, add loop with add_proxy: the proxy is put
\* into _proxies and its start task is created; the task binds the port
\* unless the port is in failing, where start_server raises in the task
RECURSIVE TcpAddLoop(_, _, _, _)
TcpAddLoop(rules, table, bl, failing) ==
    IF rules = <<>> THEN table
    ELSE LET rule == Head(rules)
         IN  TcpAddLoop(Tail(rules),
                IF rule.protocol = "tcp" /\ rule.listen_port \notin Ports(table)
                THEN Append(table, NewProxy(rule, bl,
                                            rule.listen_port \notin failing))
                ELSE table,
                bl, failing)

\* UDPProxyManager.sync_proxies, add loop: reading a key the rule does not
\* have raises KeyError
RECURSIVE UdpAddLoop(_, _, _)
UdpAddLoop(rules, table, bl) ==
    IF rules = <<>> THEN [raised |-> FALSE, table |-> table]
    ELSE LET rule == Head(rules)
         IN  IF rule.protocol = "udp" /\ rule.listen_port \notin Ports(table)
             THEN IF UdpAddKeys \subseteq ServiceDictKeys
                  THEN UdpAddLoop(Tail(rules),
                          Append(table, NewProxy(rule, bl, TRUE)),
                          bl)
                  ELSE [raised |-> TRUE, table |-> table]
             ELSE UdpAddLoop(Tail(rules), table, bl)

\* UDPProxyManager.sync_proxies: remove_proxy does not suspend
UdpSyncProxies(rules, table, bl) ==
    UdpAddLoop(rules,
        SelectSeq(table, LAMBDA e : e.listen_port \in DesiredPorts(rules, "udp")),
        bl)

\* an _on_config_update task that create_task has just made
NewApply(config) ==
    [config |-> config, pc |-> "created", rm_snapshot |-> <<>>, rm_port |-> 0,
     fw |-> FwIdle]

\* a task that returned ("done") or raised ("failed") holds nothing any
\* more; the version of the config it was created with is kept for reference
Ended(task, pc) ==
    [NewApply([NoConfig EXCEPT !.config_version = task.config.config_version])
        EXCEPT !.pc = pc]

\* the task made last is kept with the config it was created with when it
\* ends, for reference: it is the config that was fetched last
KeepConfig(i, before, after) ==
    IF i = Len(applies) /\ after.pc \in {"done", "failed"}
    THEN [after EXCEPT !.config = before.config]
    ELSE after

\* the tasks, with the config of every ended task dropped
Forget(tasks) ==
    [k \in 1..Len(tasks) |->
        IF tasks[k].pc \in {"done", "failed"} THEN Ended(tasks[k], tasks[k].pc)
        ELSE tasks[k]]

NoSync == [ended |-> FALSE, raised |-> FALSE, desired |-> {}, listeners |-> {}]

\* _on_config_update from the end of the TCP removal loop to its next
\* await: TCP add loop, UDP sync, and sync_rules up to its first command,
\* where the start tasks of the ports in failing do not get their socket
RestOfApplyWith(task, tcp_table, udp_table, cr, tcp_bl, udp_bl, failing) ==
    LET tcp2 == TcpAddLoop(task.config.services, tcp_table, tcp_bl, failing)
        udp == UdpSyncProxies(task.config.services, udp_table, udp_bl)
        tcp_result == [ended |-> TRUE, raised |-> FALSE,
                       desired |-> DesiredPorts(task.config.services, "tcp"),
                       listeners |-> ActiveListeners(tcp2)]
        udp_result == [ended |-> TRUE, raised |-> udp.raised,
                       desired |-> DesiredPorts(task.config.services, "udp"),
                       listeners |-> ActiveListeners(udp.table)]
        t1 == [task EXCEPT !.rm_port = 0, !.rm_snapshot = <<>>]
        tasks == IF udp.raised THEN {Ended(task, "failed")}
                 ELSE {IF f.pc = "done" THEN Ended(task, "done")
                       ELSE [t1 EXCEPT !.fw = f, !.pc = "firewall"] :
                         f \in FwBegin(task.config.firewall_rules, cr)}
    IN  {[task |-> t, tcp_proxies |-> tcp2, udp_proxies |-> udp.table,
          returned |-> TRUE, tcp_synced |-> tcp_result,
          udp_synced |-> udp_result] : t \in tasks}

\* the same, for every outcome of the start tasks it creates
RestOfApply(task, tcp_table, udp_table, cr, tcp_bl, udp_bl) ==
    UNION {RestOfApplyWith(task, tcp_table, udp_table, cr, tcp_bl, udp_bl, failing) :
             failing \in SUBSET (BindMayFail \cap
                 (DesiredPorts(task.config.services, "tcp") \ Ports(tcp_table)))}

\* what a task does from a point of its TCP removal loop to its next await
ApplyFrom(task, snapshot, tcp_table, udp_table, cr, tcp_bl, udp_bl) ==
    LET loop == TcpRemoveLoop(snapshot,
                    DesiredPorts(task.config.services, "tcp"), tcp_table)
    IN  IF loop.suspended
        THEN {[task |-> [task EXCEPT !.pc = "tcp_removing",
                                     !.rm_snapshot = loop.rm_snapshot,
                                     !.rm_port = loop.rm_port],
               tcp_proxies |-> loop.table, udp_proxies |-> udp_table,
               returned |-> FALSE, tcp_synced |-> NoSync, udp_synced |-> NoSync]}
        ELSE RestOfApply(task, loop.table, udp_table, cr, tcp_bl, udp_bl)

AgentInit ==
    /\ sync_pc = "initial"
    /\ current_version = 0
    /\ ticks = 0
    /\ force_syncs = 0
    /\ last_fetch = [by |-> "none", version |-> 0]
    /\ applies = <<>>
    /\ tcp_blocklist = {}
    /\ udp_blocklist = {}
    /\ tcp_proxies = <<>>
    /\ udp_proxies = <<>>
    /\ tcp_synced = NoSync
    /\ udp_synced = NoSync

\* the event loop runs its ready callbacks in the order they were queued:
\* a task made by create_task takes its first step before a coroutine
\* whose fetch completes later is resumed
NoTaskReady == \A i \in 1..Len(applies) : applies[i].pc # "created"

\* on_config_update without the assignment to _current_version
OnConfigUpdateStale(config) ==
    /\ Len(applies) < MaxApplies
    /\ UNCHANGED current_version
    /\ applies' = Append(Forget(applies), NewApply(config))

\* self._current_version = config.config_version; self.on_config_update(config)
\* where on_config_update is lambda c: asyncio.create_task(_on_config_update(c))
OnConfigUpdate(config) ==
    /\ Len(applies) < MaxApplies
    /\ current_version' = config.config_version
    /\ applies' = Append(Forget(applies), NewApply(config))

\* _sync_loop before its loop: the initial fetch returned
InitialFetch(result) ==
    /\ sync_pc = "initial"
    /\ NoTaskReady
    /\ sync_pc' = "loop"
    /\ last_fetch' = [by |-> "initial", version |-> result.config_version]
    /\ IF result # NoConfig
       THEN OnConfigUpdate(result)
       ELSE UNCHANGED <<current_version, applies>>
    /\ UNCHANGED <<ticks, force_syncs, proxyVars>>
    /\ UNCHANGED <<current_rules, chain>>
    /\ UNCHANGED nonAgentVars

\* a tick that forgets the applied version when its fetch fails
PollTickForgetful(result) ==
    /\ sync_pc = "loop"
    /\ NoTaskReady
    /\ ticks < MaxTicks
    /\ ticks' = ticks + 1
    /\ last_fetch' = [by |-> "tick", version |-> result.config_version]
    /\ IF result # NoConfig /\ VersionDiffers(result.config_version, current_version)
       THEN OnConfigUpdate(result)
       ELSE /\ current_version' = IF result = NoConfig THEN 0 ELSE current_version
            /\ UNCHANGED applies
    /\ UNCHANGED <<sync_pc, force_syncs, proxyVars>>
    /\ UNCHANGED <<current_rules, chain>>
    /\ UNCHANGED nonAgentVars

\* _sync_loop, one iteration: the fetch after the sleep returned
PollTick(result) ==
    /\ sync_pc = "loop"
    /\ NoTaskReady
    /\ ticks < MaxTicks
    /\ ticks' = ticks + 1
    /\ last_fetch' = [by |-> "tick", version |-> result.config_version]
    /\ IF result # NoConfig /\ VersionDiffers(result.config_version, current_version)
       THEN OnConfigUpdate(result)
       ELSE UNCHANGED <<current_version, applies>>
    /\ UNCHANGED <<sync_pc, force_syncs, proxyVars>>
    /\ UNCHANGED <<current_rules, chain>>
    /\ UNCHANGED nonAgentVars

\* force_sync (POST /trigger-sync): its fetch returned
ForceSync(result) ==
    /\ NoTaskReady
    /\ force_syncs < MaxForceSyncs
    /\ force_syncs' = force_syncs + 1
    /\ last_fetch' = [by |-> "force", version |-> result.config_version]
    /\ IF result # NoConfig
       THEN OnConfigUpdate(result)
       ELSE UNCHANGED <<current_version, applies>>
    /\ UNCHANGED <<sync_pc, ticks, proxyVars>>
    /\ UNCHANGED <<current_rules, chain>>
    /\ UNCHANGED nonAgentVars

\* a step of task i that ran the task up to its next await, or to its end
ApplyStep(i, r) ==
    /\ applies' = [applies EXCEPT ![i] = KeepConfig(i, applies[i], r.task)]
    /\ tcp_proxies' = r.tcp_proxies
    /\ udp_proxies' = r.udp_proxies
    /\ tcp_synced' = IF r.returned THEN r.tcp_synced ELSE tcp_synced
    /\ udp_synced' = IF r.returned THEN r.udp_synced ELSE udp_synced

\* an _on_config_update task runs from its start to its first await:
\* both blocklists are replaced, then the TCP sync begins
ApplyStart(i) ==
    /\ applies[i].pc = "created"
    /\ tcp_blocklist' = applies[i].config.blocklist
    /\ udp_blocklist' = applies[i].config.blocklist
    /\ \E r \in ApplyFrom(applies[i], KeyList(tcp_proxies),
                          UpdateBlocklist(tcp_proxies, applies[i].config.blocklist),
                          UpdateBlocklist(udp_proxies, applies[i].config.blocklist),
                          current_rules, applies[i].config.blocklist,
                          applies[i].config.blocklist) : ApplyStep(i, r)
    /\ UNCHANGED <<sync_pc, current_version, ticks, force_syncs, last_fetch>>
    /\ UNCHANGED <<current_rules, chain>>
    /\ UNCHANGED nonAgentVars

\* remove_proxy resumes after its awaits: del self._proxies[listen_port]
\* raises KeyError when another task has deleted the port meanwhile
ApplyTcpRemoved(i) ==
    /\ applies[i].pc = "tcp_removing"
    /\ IF applies[i].rm_port \notin Ports(tcp_proxies)
       THEN /\ applies' = [applies EXCEPT ![i] =
                               KeepConfig(i, applies[i], Ended(applies[i], "failed"))]
            /\ UNCHANGED <<tcp_proxies, udp_proxies, tcp_synced, udp_synced>>
       ELSE \E r \in ApplyFrom(applies[i], applies[i].rm_snapshot,
                               DeleteKey(tcp_proxies, applies[i].rm_port),
                               udp_proxies, current_rules, tcp_blocklist,
                               udp_blocklist) : ApplyStep(i, r)
    /\ UNCHANGED <<sync_pc, current_version, ticks, force_syncs, last_fetch,
                   tcp_blocklist, udp_blocklist>>
    /\ UNCHANGED <<current_rules, chain>>
    /\ UNCHANGED nonAgentVars

\* sync_rules of an apply task, after one of its iptables commands returned
ApplyFirewallStep(i, r) ==
    /\ applies' = [applies EXCEPT ![i] = IF r.task.pc = "done"
                                         THEN KeepConfig(i, applies[i],
                                                         Ended(applies[i], "done"))
                                         ELSE [@ EXCEPT !.fw = r.task]]
    /\ current_rules' = r.current_rules
    /\ chain' = r.chain
    /\ UNCHANGED <<sync_pc, current_version, ticks, force_syncs, last_fetch,
                   proxyVars>>
    /\ UNCHANGED nonAgentVars

\* the iptables -D of the removal loop of an apply task returned
ApplyFwRemoveReturned(i, ok) ==
    /\ applies[i].pc = "firewall"
    /\ applies[i].fw.pc = "removing"
    /\ ok => CanDelete(applies[i].fw, chain)
    /\ \E r \in FwAfterRemove(applies[i].fw, current_rules, chain, ok) :
          ApplyFirewallStep(i, r)

\* the iptables -A of the add loop of an apply task returned
ApplyFwAddReturned(i, ok) ==
    /\ applies[i].pc = "firewall"
    /\ applies[i].fw.pc = "adding"
    /\ \E r \in FwAfterAdd(applies[i].fw, current_rules, chain, ok) :
          ApplyFirewallStep(i, r)

ApplyIds == 1..MaxApplies

AgentNext ==
    \/ \E result \in FetchResults : InitialFetch(result)
    \/ \E result \in FetchResults : PollTick(result)
    \/ \E result \in FetchResults : ForceSync(result)
    \/ \E i \in ApplyIds : i <= Len(applies) /\ ApplyStart(i)
    \/ \E i \in ApplyIds : i <= Len(applies) /\ ApplyTcpRemoved(i)
    \/ \E i \in ApplyIds, ok \in BOOLEAN : i <= Len(applies) /\ ApplyFwRemoveReturned(i, ok)
    \/ \E i \in ApplyIds, ok \in BOOLEAN : i <= Len(applies) /\ ApplyFwAddReturned(i, ok)

\* ========================================================================
\* Agent registry and Health Monitor (controller/core/agent_manager.py,
\* controller/core/health_monitor.py, controller/api/v1/agents.py)
\* ========================================================================
\* settings.heartbeat_timeout (90 s), the unit of utcnow
HeartbeatTimeout == 1

WireguardIps == {"10.0.0.1", "10.0.0.2"}

\* AgentRegistration bodies
AgentRegistrations ==
    {[wireguard_ip |-> w, hostname |-> p[1], public_ip |-> p[2], version |-> p[3]] :
        w \in WireguardIps,
        p \in {<<"edge-a", "198.51.100.1", "2.0.0">>,
               <<"edge-b", "198.51.100.2", "2.1.0">>}}

\* AgentHeartbeat bodies
AgentHeartbeats ==
    {[active_connections |-> 0, cpu_percent |-> 0, memory_percent |-> 0],
     [active_connections |-> 1, cpu_percent |-> 50, memory_percent |-> 60]}

\* the agent ids a request can name
RequestAgentIds == 1..MaxAgentId

\* AgentRepository.get_by_id
GetById(table, agent_id) == {a \in table : a.id = agent_id}

\* AgentRepository.get_by_wireguard_ip
GetByWireguardIp(table, wireguard_ip) == {a \in table : a.wireguard_ip = wireguard_ip}

\* AgentRepository.create: Agent(..., status=HEALTHY, last_heartbeat=utcnow())
NewAgent(agent_id, registration, now) ==
    [id |-> agent_id,
     wireguard_ip |-> registration.wireguard_ip,
     hostname |-> registration.hostname,
     public_ip |-> registration.public_ip,
     version |-> registration.version,
     status |-> "healthy",
     last_heartbeat |-> now,
     active_connections |-> 0, cpu_percent |-> 0, memory_percent |-> 0]

ReregisteredStale(agent, registration) == agent

\* register_agent, existing agent: hostname, public_ip and version replaced
Reregistered(agent, registration) ==
    [agent EXCEPT !.hostname = registration.hostname,
                  !.public_ip = registration.public_ip,
                  !.version = registration.version]

\* AgentRepository.update_heartbeat on the row it found
HeartbeatUpdated(agent, heartbeat_data, now) ==
    [agent EXCEPT !.last_heartbeat = now,
                  !.status = "healthy",
                  !.active_connections = heartbeat_data.active_connections,
                  !.cpu_percent = heartbeat_data.cpu_percent,
                  !.memory_percent = heartbeat_data.memory_percent]

\* last_heartbeat IS NULL
NoHeartbeat == -1

\* _check_agents: the agent is to be marked unhealthy
Demotes(agent, now) ==
    /\ agent.status = "healthy"
    /\ \/ agent.last_heartbeat = NoHeartbeat
       \/ now - agent.last_heartbeat > HeartbeatTimeout

\* the ids of a table in ascending order (the order of get_all)
RECURSIVE IdList(_)
IdList(table) ==
    IF table = {} THEN <<>>
    ELSE LET last == CHOOSE a \in table : \A b \in table : b.id <= a.id
         IN  Append(IdList(table \ {last}), last.id)

\* the Health Monitor between two runs of _check_agents
MonitorSleep ==
    [pc |-> "sleep", now |-> 0, todo |-> <<>>, loaded |-> {}, expired |-> FALSE]

\* no heartbeat request between its get_by_id and its commit
NoHeartbeatRequest == [agent_id |-> 0, data |-> <<>>, loaded |-> <<>>]

\* serial counts the requests answered
NoResponse == [op |-> "none", agent_id |-> 0, body |-> <<>>, status |-> 0, serial |-> 0]

\* the answer to a request: its operation, the agent id of its path or of
\* the AgentStatus returned, the body received and the HTTP status
Respond(op, agent_id, body, status) ==
    [op |-> op, agent_id |-> agent_id, body |-> body, status |-> status,
     serial |-> response.serial + 1]

\* a request can still be received
CanRequest ==
    response.serial + (IF heartbeat = NoHeartbeatRequest THEN 0 ELSE 1) < MaxRequests

RegistryInit ==
    /\ agents = {}
    /\ utcnow = 0
    /\ monitor = MonitorSleep
    /\ heartbeat = NoHeartbeatRequest
    /\ response = NoResponse

\* datetime.utcnow() advances
UtcTick ==
    /\ utcnow < MaxNow
    /\ utcnow' = utcnow + 1
    /\ UNCHANGED <<agents, monitor, heartbeat, response>>
    /\ UNCHANGED nonRegistryVars

\* POST /api/v1/agents/register
Register(registration) ==
    LET existing == GetByWireguardIp(agents, registration.wireguard_ip)
    IN  /\ CanRequest
        /\ IF existing # {}
           THEN LET agent == CHOOSE a \in existing : TRUE
                IN  /\ agents' = (agents \ {agent}) \cup {Reregistered(agent, registration)}
                    /\ response' = Respond("register", agent.id, registration, 200)
           ELSE /\ NextId(agents) <= MaxAgentId
                /\ agents' = agents \cup {NewAgent(NextId(agents), registration, utcnow)}
                /\ response' = Respond("register", NextId(agents), registration, 200)
        /\ UNCHANGED <<utcnow, monitor, heartbeat>>
        /\ UNCHANGED nonRegistryVars

HeartbeatGetLenient(agent_id, data) ==
    /\ heartbeat = NoHeartbeatRequest
    /\ CanRequest
    /\ IF GetById(agents, agent_id) = {}
       THEN /\ response' = Respond("heartbeat", agent_id, data, 200)
            /\ agents' = agents \cup
                   {[NewAgent(agent_id, [wireguard_ip |-> "", hostname |-> "",
                                         public_ip |-> "", version |-> ""], utcnow)
                       EXCEPT !.active_connections = data.active_connections]}
            /\ UNCHANGED heartbeat
       ELSE /\ heartbeat' = [agent_id |-> agent_id, data |-> data,
                             loaded |-> CHOOSE a \in GetById(agents, agent_id) : TRUE]
            /\ UNCHANGED <<agents, response>>
    /\ UNCHANGED <<utcnow, monitor>>
    /\ UNCHANGED nonRegistryVars

\* POST /api/v1/agents/{agent_id}/heartbeat up to get_by_id: 404 when the
\* agent is not found, else the row is in the session of the request
HeartbeatGet(agent_id, data) ==
    /\ heartbeat = NoHeartbeatRequest
    /\ CanRequest
    /\ IF GetById(agents, agent_id) = {}
       THEN /\ response' = Respond("heartbeat", agent_id, data, 404)
            /\ UNCHANGED heartbeat
       ELSE /\ heartbeat' = [agent_id |-> agent_id, data |-> data,
                             loaded |-> CHOOSE a \in GetById(agents, agent_id) : TRUE]
            /\ UNCHANGED response
    /\ UNCHANGED <<agents, utcnow, monitor>>
    /\ UNCHANGED nonRegistryVars

\* the columns of the UPDATE a flush issues: the attributes whose value
\* differs from the value the session loaded
Flushed(row, loaded, wanted) ==
    [f \in DOMAIN row |-> IF wanted[f] # loaded[f] THEN wanted[f] ELSE row[f]]

\* update_heartbeat from the assignments to commit and refresh; the UPDATE
\* of a row deleted meanwhile raises (HTTP 500)
HeartbeatCommit ==
    /\ heartbeat # NoHeartbeatRequest
    /\ LET row == GetById(agents, heartbeat.agent_id)
           wanted == HeartbeatUpdated(heartbeat.loaded, heartbeat.data, utcnow)
       IN  IF row = {}
           THEN /\ response' = Respond("heartbeat", heartbeat.agent_id, heartbeat.data, 500)
                /\ UNCHANGED agents
           ELSE LET agent == CHOOSE a \in row : TRUE
                IN  /\ agents' = (agents \ {agent})
                                    \cup {Flushed(agent, heartbeat.loaded, wanted)}
                    /\ response' = Respond("heartbeat", heartbeat.agent_id, heartbeat.data, 200)
    /\ heartbeat' = NoHeartbeatRequest
    /\ UNCHANGED <<utcnow, monitor>>
    /\ UNCHANGED nonRegistryVars

\* DELETE /api/v1/agents/{agent_id}; relationship(cascade="all, delete-orphan")
\* deletes the connection stats and the assignments of the agent with it
DeleteAgent(agent_id) ==
    /\ CanRequest
    /\ IF GetById(agents, agent_id) = {}
       THEN /\ response' = Respond("delete", agent_id, <<>>, 404)
            /\ UNCHANGED agents
       ELSE /\ agents' = agents \ GetById(agents, agent_id)
            /\ response' = Respond("delete", agent_id, <<>>, 200)
    /\ connection_stats' = {c \in connection_stats : c.agent_id # agent_id}
    /\ service_assignments' = {a \in service_assignments : a.agent_id # agent_id}
    /\ UNCHANGED <<utcnow, monitor, heartbeat>>
    /\ UNCHANGED <<clock, firewall_rules, services, blocklist, mutations, store_response,
                   create_requests>>
    /\ UNCHANGED <<statsVars, connVars, fwVars, agentVars, udpVars, shutdownVars>>

\* _check_agents: get_all, then now = datetime.utcnow()
MonitorStart ==
    /\ monitor.pc = "sleep"
    /\ monitor' = [pc |-> "check", now |-> utcnow, todo |-> IdList(agents),
                   loaded |-> agents, expired |-> FALSE]
    /\ UNCHANGED <<agents, utcnow, heartbeat, response>>
    /\ UNCHANGED nonRegistryVars

\* the row of the agent the loop is at as the session of the monitor has
\* it: as loaded by get_all, or read again once a commit has expired it
MonitorView(agent_id) ==
    IF monitor.expired THEN GetById(agents, agent_id)
    ELSE GetById(monitor.loaded, agent_id)

\* one iteration of the loop up to the call of mark_unhealthy; reading an
\* expired object whose row is gone raises, and _monitor_loop logs it
MonitorCheck ==
    /\ monitor.pc = "check"
    /\ monitor.todo # <<>>
    /\ LET view == MonitorView(Head(monitor.todo))
       IN  IF view = {}
           THEN monitor' = MonitorSleep
           ELSE LET agent == CHOOSE a \in view : TRUE
                IN  IF Demotes(agent, monitor.now)
                    THEN monitor' = [monitor EXCEPT !.pc = "mark",
                                        !.loaded = IF monitor.expired THEN {} ELSE @]
                    ELSE monitor' = [monitor EXCEPT !.todo = Tail(@),
                                        !.loaded = IF monitor.expired THEN {} ELSE @]
    /\ UNCHANGED <<agents, utcnow, heartbeat, response>>
    /\ UNCHANGED nonRegistryVars

\* AgentRepository.mark_unhealthy: get_by_id, status, commit
MonitorMark ==
    /\ monitor.pc = "mark"
    /\ LET row == GetById(agents, Head(monitor.todo))
       IN  IF row = {}
           THEN /\ monitor' = [monitor EXCEPT !.pc = "check", !.todo = Tail(@)]
                /\ UNCHANGED agents
           ELSE LET agent == CHOOSE a \in row : TRUE
                IN  /\ agents' = (agents \ {agent})
                                    \cup {[agent EXCEPT !.status = "unhealthy"]}
                    /\ monitor' = [monitor EXCEPT !.pc = "check", !.todo = Tail(@),
                                       !.loaded = {}, !.expired = TRUE]
    /\ UNCHANGED <<utcnow, heartbeat, response>>
    /\ UNCHANGED nonRegistryVars

\* the loop is over; the monitor sleeps until its next run
MonitorEnd ==
    /\ monitor.pc = "check"
    /\ monitor.todo = <<>>
    /\ monitor' = MonitorSleep
    /\ UNCHANGED <<agents, utcnow, heartbeat, response>>
    /\ UNCHANGED nonRegistryVars

RegistryNext ==
    \/ UtcTick
    \/ \E registration \in AgentRegistrations : Register(registration)
    \/ \E agent_id \in RequestAgentIds, data \in AgentHeartbeats : HeartbeatGet(agent_id, data)
    \/ HeartbeatCommit
    \/ \E agent_id \in RequestAgentIds : DeleteAgent(agent_id)
    \/ MonitorStart
    \/ MonitorCheck
    \/ MonitorMark
    \/ MonitorEnd

EnabledForAgentAll(table, agent_id) == ForAgent(table, agent_id)

\* get_enabled_for_agent: (X.enabled == True) & ((X.agent_id == agent_id) | (X.agent_id == None))
EnabledForAgent(table, agent_id) == {r \in ForAgent(table, agent_id) : r.enabled}

\* the rows of a query in the order of their ids
RECURSIVE RowsById(_)
RowsById(table) ==
    IF table = {} THEN <<>>
    ELSE LET last == CHOOSE r \in table : \A q \in table : q.id <= r.id
         IN  Append(RowsById(table \ {last}), last)

\* get_agent_config: the loop over the assignments, with seen_service_ids
RECURSIVE ServicesOf(_, _)
ServicesOf(assignments, seen_service_ids) ==
    IF assignments = <<>> THEN <<>>
    ELSE LET assignment == Head(assignments)
         IN  IF assignment.service_id \in seen_service_ids
             THEN ServicesOf(Tail(assignments), seen_service_ids)
             ELSE <<CHOOSE s \in services : s.id = assignment.service_id>>
                  \o ServicesOf(Tail(assignments),
                                seen_service_ids \cup {assignment.service_id})

\* AgentManager.get_agent_config for an agent that exists
GetAgentConfig(agent_id) ==
    [agent_id |-> agent_id,
     config_version |-> ComputeConfigVersion(agent_id),
     services |-> ServicesOf(RowsById(EnabledForAgent(service_assignments, agent_id)), {}),
     blocklist |-> [i \in 1..Cardinality(blocklist) |-> RowsById(blocklist)[i].ip],
     firewall_rules |-> RowsById(EnabledForAgent(firewall_rules, agent_id))]

\* the records of the store an agent's configuration is computed from
VisibleServices(agent_id) ==
    {s \in services : \E a \in ForAgent(service_assignments, agent_id) :
                          a.service_id = s.id}

VisibleRecords(agent_id) ==
    [fw |-> ForAgent(firewall_rules, agent_id),
     asg |-> ForAgent(service_assignments, agent_id),
     svc |-> VisibleServices(agent_id),
     bl |-> blocklist]

\* ------------------------------------------------------------------------
\* One UDPProxy: UDPProxyProtocol and its BackendUDPProtocol endpoints
\* (agent/core/udp_proxy.py), from the state UDPProxy.start() leaves
\* ------------------------------------------------------------------------

\* the client endpoints (ip, port) that send datagrams
UdpAddrs == {<<"ip1", 1>>, <<"ip2", 1>>}

\* the blocklists UDPProxyManager.update_blocklist hands to the proxy
UdpBlocklists == {{}, {"ip1"}}

\* UDPProxyProtocol.client_timeout, in ticks of udp_time
ClientTimeout == 1

NotInClients == 0

\* client_ip in self.blocklist
UdpBlockedNever(addr) == FALSE

UdpBlocked(addr) == addr[1] \in protocol_blocklist

\* addr in self._clients
InClients(addr) == clients[addr] # NotInClients

\* now - stats.last_activity > self.client_timeout
IdleAtTimeout(stats) == udp_time - stats.last_activity >= ClientTimeout

Idle(stats) == udp_time - stats.last_activity > ClientTimeout

\* the backend endpoint _create_backend_connection opens and its
\* UDPConnectionStats, after the initial datagram was sent
NewBackend(addr) ==
    [addr |-> addr,
     status |-> "active",
     closed |-> FALSE,
     last_activity |-> udp_time,
     packets_sent |-> 1,
     packets_received |-> 0,
     emitted |-> <<>>]

\* stats.status = status; backend_transport.close(); self.on_connection(stats)
CloseBackend(backend, status) ==
    [backend EXCEPT !.status = status, !.closed = TRUE,
                    !.emitted = Append(@, status)]

UdpInit ==
    /\ udp_time = 0
    /\ protocol_blocklist = {}
    /\ udp_transport = "open"
    /\ clients = [addr \in UdpAddrs |-> NotInClients]
    /\ backends = <<>>
    /\ creating = [addr \in UdpAddrs |-> 0]
    /\ datagrams = [addr \in UdpAddrs |-> [received |-> 0, blocked |-> 0]]
    /\ cleanup_passes = 0

\* time.time() advances
UdpTick ==
    /\ udp_time < MaxUdpTime
    /\ udp_time' = udp_time + 1
    /\ UNCHANGED <<protocol_blocklist, udp_transport, clients, backends,
                   creating, datagrams, cleanup_passes>>
    /\ UNCHANGED nonUdpVars

\* UDPProxy.update_blocklist
UdpUpdateBlocklist(bl) ==
    /\ bl # protocol_blocklist
    /\ protocol_blocklist' = bl
    /\ UNCHANGED <<udp_time, udp_transport, clients, backends, creating,
                   datagrams, cleanup_passes>>
    /\ UNCHANGED nonUdpVars

\* UDPProxyProtocol.datagram_received: drop the datagram of a blocked
\* source; for an address not in _clients create the task that will open
\* its backend endpoint; else forward and count
DatagramReceived(addr) ==
    /\ udp_transport = "open"
    /\ datagrams[addr].received < MaxDatagrams
    /\ IF UdpBlocked(addr)
       THEN /\ datagrams' = [datagrams EXCEPT ![addr].received = @ + 1,
                                              ![addr].blocked = @ + 1]
            /\ UNCHANGED <<creating, backends>>
       ELSE /\ datagrams' = [datagrams EXCEPT ![addr].received = @ + 1]
            /\ IF ~InClients(addr)
               THEN /\ creating' = [creating EXCEPT ![addr] = @ + 1]
                    /\ UNCHANGED backends
               ELSE /\ backends' = [backends EXCEPT
                           ![clients[addr]].packets_sent = @ + 1,
                           ![clients[addr]].last_activity = udp_time]
                    /\ UNCHANGED creating
    /\ UNCHANGED <<udp_time, protocol_blocklist, udp_transport, clients,
                   cleanup_passes>>
    /\ UNCHANGED nonUdpVars

\* _create_backend_connection after its await: create_datagram_endpoint
\* returned; the endpoint and its stats are stored under the client address
\* and the initial datagram is sent
CreateBackendConnection(addr) ==
    /\ creating[addr] > 0
    /\ creating' = [creating EXCEPT ![addr] = @ - 1]
    /\ backends' = Append(backends, NewBackend(addr))
    /\ clients' = [clients EXCEPT ![addr] = Len(backends) + 1]
    /\ UNCHANGED <<udp_time, protocol_blocklist, udp_transport, datagrams,
                   cleanup_passes>>
    /\ UNCHANGED nonUdpVars

\* _create_backend_connection: create_datagram_endpoint raised; the
\* exception is logged and the initial datagram is lost
CreateBackendFailed(addr) ==
    /\ creating[addr] > 0
    /\ creating' = [creating EXCEPT ![addr] = @ - 1]
    /\ UNCHANGED <<udp_time, protocol_blocklist, udp_transport, clients,
                   backends, datagrams, cleanup_passes>>
    /\ UNCHANGED nonUdpVars

\* BackendUDPProtocol.datagram_received: forward to the client and count
BackendDatagramReceived(i) ==
    /\ ~backends[i].closed
    /\ backends[i].packets_received < MaxReplies
    /\ backends' = [backends EXCEPT ![i].packets_received = @ + 1,
                                    ![i].last_activity = udp_time]
    /\ UNCHANGED <<udp_time, protocol_blocklist, udp_transport, clients,
                   creating, datagrams, cleanup_passes>>
    /\ UNCHANGED nonUdpVars

\* one pass of _cleanup_loop after its sleep
Reaped == {addr \in UdpAddrs : InClients(addr) /\ Idle(backends[clients[addr]])}

CleanupPass ==
    /\ udp_transport # "closed"
    /\ cleanup_passes < MaxPasses
    /\ cleanup_passes' = cleanup_passes + 1
    /\ clients' = [addr \in UdpAddrs |->
                     IF addr \in Reaped THEN NotInClients ELSE clients[addr]]
    /\ backends' = [i \in 1..Len(backends) |->
                      IF \E addr \in Reaped : clients[addr] = i
                      THEN CloseBackend(backends[i], "timeout")
                      ELSE backends[i]]
    /\ UNCHANGED <<udp_time, protocol_blocklist, udp_transport, creating,
                   datagrams>>
    /\ UNCHANGED nonUdpVars

\* UDPProxy.stop: self._transport.close(); connection_lost is called by the
\* event loop afterwards
UdpStop ==
    /\ udp_transport = "open"
    /\ udp_transport' = "closing"
    /\ UNCHANGED <<udp_time, protocol_blocklist, clients, backends, creating,
                   datagrams, cleanup_passes>>
    /\ UNCHANGED nonUdpVars

\* UDPProxyProtocol.connection_lost: cancel the cleanup task, close every
\* endpoint of _clients with status "closed", clear _clients
ConnectionLost ==
    /\ udp_transport = "closing"
    /\ udp_transport' = "closed"
    /\ clients' = [addr \in UdpAddrs |-> NotInClients]
    /\ backends' = [i \in 1..Len(backends) |->
                      IF \E addr \in UdpAddrs : clients[addr] = i
                      THEN CloseBackend(backends[i], "closed")
                      ELSE backends[i]]
    /\ UNCHANGED <<udp_time, protocol_blocklist, creating, datagrams,
                   cleanup_passes>>
    /\ UNCHANGED nonUdpVars

UdpNext ==
    \/ UdpTick
    \/ \E bl \in UdpBlocklists : UdpUpdateBlocklist(bl)
    \/ \E addr \in UdpAddrs : DatagramReceived(addr)
    \/ \E addr \in UdpAddrs : CreateBackendConnection(addr)
    \/ \E addr \in UdpAddrs : CreateBackendFailed(addr)
    \/ \E i \in 1..Len(backends) : BackendDatagramReceived(i)
    \/ CleanupPass
    \/ UdpStop
    \/ ConnectionLost

\* ------------------------------------------------------------------------
\* NekoProxyAgent.stop (agent/main.py): the stops of the components, with
\* the TCP flows and UDP sessions that are open when it runs
\* ------------------------------------------------------------------------

\* the awaits of NekoProxyAgent.stop, in the order of its statements
StopOrder ==
    <<"control_api", "config_sync", "heartbeat", "tcp_manager", "udp_manager",
      "firewall_manager", "email_manager", "stats_reporter">>

ShutdownInit == agent_stop = [began |-> <<>>, returned |-> <<>>]

\* the client address that sends datagrams while the agent stops
ShutdownUdpAddr == <<"ip2", 1>>

\* NekoProxyAgent.stop reaches the stop of its next component: the previous
\* await has returned. TCPProxyManager.stop_all closes the listening
\* socket (TCPProxy.stop), UDPProxyManager.stop_all closes the transport
\* (UDPProxy.stop, which does not suspend), StatsReporter.stop starts its
\* flush
StopBegin ==
    /\ Len(agent_stop.began) = Len(agent_stop.returned)
    /\ Len(agent_stop.began) < Len(StopOrder)
    /\ LET component == StopOrder[Len(agent_stop.began) + 1]
       IN  /\ agent_stop' = [agent_stop EXCEPT !.began = Append(@, component)]
           /\ IF component = "tcp_manager"
              THEN listener' = [serving |-> FALSE, remove_proxy |-> "wait_closed"]
              ELSE UNCHANGED listener
           /\ IF component = "udp_manager"
              THEN udp_transport' = "closing"
              ELSE UNCHANGED udp_transport
           /\ IF component = "stats_reporter"
              THEN StatsStopBegin
              ELSE UNCHANGED statsVars
    /\ UNCHANGED <<proxy_blocklist, conns, active_connections>>
    /\ UNCHANGED <<udp_time, protocol_blocklist, clients, backends, creating,
                   datagrams, cleanup_passes>>
    /\ UNCHANGED <<storeVars, fwVars, agentVars, registryVars>>

\* the stop of the current component returns. remove_proxy returns when
\* wait_closed of the closed server did, whatever the handlers do;
\* FirewallManager.shutdown awaits iptables subprocesses, so the
\* connection_lost that transport.close() scheduled has run when it
\* returns; StatsReporter.stop returns when its POST did
StopReturn(outcome) ==
    /\ Len(agent_stop.began) = Len(agent_stop.returned) + 1
    /\ LET component == agent_stop.began[Len(agent_stop.began)]
       IN  /\ agent_stop' = [agent_stop EXCEPT !.returned = Append(@, component)]
           /\ component = "firewall_manager" => udp_transport # "closing"
           /\ IF component = "tcp_manager"
              THEN listener' = [listener EXCEPT !.remove_proxy = "returned"]
              ELSE UNCHANGED listener
           /\ IF component = "stats_reporter" /\ stats_stop.pc = "posting"
              THEN StatsStopEnd(outcome)
              ELSE /\ outcome = "ok"
                   /\ UNCHANGED statsVars
    /\ UNCHANGED <<proxy_blocklist, conns, active_connections>>
    /\ UNCHANGED udpVars
    /\ UNCHANGED <<storeVars, fwVars, agentVars, registryVars>>

\* the stops, and the steps of the flows and sessions open meanwhile
ShutdownNext ==
    \/ StopBegin
    \/ \E outcome \in {"ok", "transport_error", "error"} : StopReturn(outcome)
    \/ HandleClient("ip2")
    \/ \E i \in 1..Len(conns) : CloseRaised(i)
    \/ \E i \in 1..Len(conns) : ConnectOk(i)
    \/ \E i \in 1..Len(conns), failure \in ConnectFailures : ConnectFailed(i, failure)
    \/ \E i \in 1..Len(conns), d \in {"c2b", "b2c"} : ForwardEnded(i, d)
    \/ \E i \in 1..Len(conns) : ForwardCompleted(i)
    \/ \E i \in 1..Len(conns) : ClientClosed(i)
    \/ \E i \in 1..Len(conns) : BackendClosed(i)
    \/ DatagramReceived(ShutdownUdpAddr)
    \/ CreateBackendConnection(ShutdownUdpAddr)
    \/ ConnectionLost

vars == <<storeVars, statsVars, connVars, fwVars, agentVars, registryVars,
          udpVars, shutdownVars>>

Init ==
    /\ StoreInit
    /\ StatsInit
    /\ ConnInit
    /\ FwInit
    /\ AgentInit
    /\ RegistryInit
    /\ UdpInit
    /\ ShutdownInit

\* the registry once two agents have registered, edge-a then edge-b
RegistryAfterRegistrations ==
    LET first == [wireguard_ip |-> "10.0.0.1", hostname |-> "edge-a",
                  public_ip |-> "198.51.100.1", version |-> "2.0.0"]
        second == [wireguard_ip |-> "10.0.0.2", hostname |-> "edge-b",
                   public_ip |-> "198.51.100.2", version |-> "2.1.0"]
    IN  /\ agents = {NewAgent(1, first, 0), NewAgent(2, second, 0)}
        /\ utcnow = 0
        /\ monitor = MonitorSleep
        /\ heartbeat = NoHeartbeatRequest
        /\ response = [op |-> "register", agent_id |-> 2, body |-> second,
                       status |-> 200, serial |-> 2]

\* the controller with an empty store and the agents of AgentIds registered
InitRegistered ==
    /\ StoreInit
    /\ StatsInit
    /\ ConnInit
    /\ FwInit
    /\ AgentInit
    /\ RegistryAfterRegistrations
    /\ UdpInit
    /\ ShutdownInit

\* the requests that create and delete the records that refer to each other
RefsNext ==
    \/ \E agent_id \in RequestAgentIds : DeleteAgent(agent_id)
    \/ \E n \in ServiceNames, p \in ListenPorts, pr \in Protocols : ServiceCreate(n, p, pr)
    \/ \E id \in RowIds : ServiceDelete(id)
    \/ \E s \in RowIds, a \in AgentRefs, en \in BOOLEAN : AssignmentCreate(s, a, en)
    \/ \E id \in RowIds, u \in AssignmentUpdates : AssignmentUpdate(id, u)
    \/ \E id \in RowIds : AssignmentDelete(id)
    \/ \E a \in AgentIds, s \in RowIds : ReportConnections(a, s)

SpecStore == InitRegistered /\ [][StoreNext]_vars

SpecStats == Init /\ [][StatsNext]_vars

SpecConn == Init /\ [][ConnNext]_vars

SpecFw == Init /\ [][FwNext]_vars

SpecAgent == Init /\ [][AgentNext]_vars

SpecRegistry == Init /\ [][RegistryNext]_vars

SpecRefs == InitRegistered /\ [][RefsNext]_vars

SpecUdp == Init /\ [][UdpNext]_vars

\* the reporter with its stop() called at any time
ReporterStopNext ==
    \/ StatsNext
    \/ StatsStop
    \/ \E outcome \in {"ok", "transport_error", "error"} : StatsStopPosted(outcome)

SpecReporterStop == Init /\ [][ReporterStopNext]_vars

SpecShutdown == Init /\ [][ShutdownNext]_vars

SpecCreateService == Init /\ [][CreateServiceNext]_vars

\* ------------------------------------------------------------------------
\* Properties of the record store
\* ------------------------------------------------------------------------

\* C2: every create, update or delete of a record visible to an agent makes
\* the config_version computed for that agent strictly greater than it was
\* before the mutation.
C2_VersionStrictlyIncreases ==
    [][\A a \in AgentIds :
          VisibleRecords(a)' # VisibleRecords(a)
             => ComputeConfigVersion(a)' > ComputeConfigVersion(a)]_vars

\* ------------------------------------------------------------------------
\* Properties of the StatsReporter
\* ------------------------------------------------------------------------

\* C7: the stats queue never holds more than its capacity, and a record()
\* on a full queue discards the record at the head and keeps the new one at
\* the tail.
C7_QueueBoundedDropOldest ==
    [][/\ Len(stats_queue) <= QueueMaxLen
       /\ Len(stats_queue') <= QueueMaxLen
       /\ recorded' = recorded + 1 =>
             /\ stats_queue'[Len(stats_queue')] = recorded'
             /\ Len(stats_queue) = QueueMaxLen =>
                   stats_queue' = Append(Tail(stats_queue), recorded')]_vars

\* a record() call has overflowed the queue: the oldest records are gone and
\* the newest one is at the tail
C7_Witness ==
    /\ Len(stats_queue) = QueueMaxLen
    /\ recorded > QueueMaxLen
    /\ stats_queue[QueueMaxLen] = recorded
    /\ 1 \in discarded
    /\ delivered = <<>>
    /\ lost = {}
    /\ last_failed = <<>>
    /\ report_pc = "sleep"

\* the records of a batch that the deque has not discarded since
Surviving(batch) == SelectSeq(batch, LAMBDA r : r \notin discarded)

\* C8 as stated: a batch whose POST failed in transport goes back to the
\* head of the queue in its original order, the next _send_batch sends the
\* same records first and in the same order, and every batch carries its
\* records in insertion order.
C8_RetrySendsSameRecords ==
    [][/\ (report_pc = "posting" /\ report_pc' = "sleep" /\ last_failed' # <<>>) =>
             IsPrefix(in_flight, stats_queue')
       /\ (report_pc = "sleep" /\ report_pc' = "posting") =>
             /\ Ascending(in_flight')
             /\ last_failed # <<>> => IsPrefix(last_failed, in_flight')]_vars

\* C8, amended: as above, but the next _send_batch sends first the records
\* of the failed batch that are still queued; a record() on the full queue
\* in the meantime has discarded the oldest of them.
C8_RetrySendsSurvivingRecords ==
    [][/\ (report_pc = "posting" /\ report_pc' = "sleep" /\ last_failed' # <<>>) =>
             IsPrefix(in_flight, stats_queue')
       /\ (report_pc = "sleep" /\ report_pc' = "posting") =>
             /\ Ascending(in_flight')
             /\ last_failed # <<>> => IsPrefix(Surviving(last_failed), in_flight')]_vars

\* a failed batch was put back ahead of a record added during the send and
\* is being sent again
C8_Witness ==
    /\ report_pc = "posting"
    /\ last_failed # <<>>
    /\ Len(last_failed) = BatchSize
    /\ in_flight = last_failed
    /\ stats_queue # <<>>
    /\ discarded = {}

\* ------------------------------------------------------------------------
\* Properties of the TCP connection handler
\* ------------------------------------------------------------------------

\* the handler of a connection has returned or raised
HandlerEnded(c) == c.pc \in {"done", "raised"}

\* C5: for every accepted connection, on every path of _handle_client, the
\* on_connection callback is invoked exactly once: never twice, and once
\* the handler has ended, not zero times.
C5_ExactlyOneStat ==
    \A i \in 1..Len(conns) :
        /\ Len(conns[i].emitted) <= 1
        /\ HandlerEnded(conns[i]) => Len(conns[i].emitted) = 1

\* C9: a connection whose client IP is in the proxy's blocklist when it is
\* accepted opens no backend connection, forwards no byte, has its client
\* socket closed and carries status "blocked" in every stat emitted for it.
C9_BlockedClient ==
    \A i \in 1..Len(conns) :
        conns[i].listed_at_accept =>
            /\ ~conns[i].backend_opened
            /\ conns[i].bytes_sent = 0
            /\ conns[i].client_closed
            /\ conns[i].status = "blocked"
            /\ \A k \in 1..Len(conns[i].emitted) : conns[i].emitted[k] = "blocked"

\* a blocked connection has been handled to its end and its stat emitted,
\* next to a connection from an address that is not blocked
C9_Witness ==
    \E i \in 1..Len(conns), j \in 1..Len(conns) :
        /\ conns[i].listed_at_accept
        /\ conns[i].pc = "done"
        /\ conns[i].emitted = <<"blocked">>
        /\ ~conns[j].listed_at_accept
        /\ conns[j].bytes_sent > 0

\* ------------------------------------------------------------------------
\* Properties of the FirewallManager
\* ------------------------------------------------------------------------

\* the chain entries a list of rules asks for: one per (port, protocol,
\* resolved interface, action) of an enabled rule whose interface resolves
WantedEntries(rules) ==
    {ChainEntry(RuleToKey(rules[i]), GetInterfaceForType(rules[i].interface)) :
        i \in {k \in 1..Len(rules) :
                 rules[k].enabled /\ GetInterfaceForType(rules[k].interface) # Unresolved}}

\* C6: after a sync_rules call the chain holds exactly the enabled rules of
\* that call whose interface resolves, one entry per (port, protocol,
\* resolved interface, action), and no rule of an earlier call that the
\* current call does not ask for.
C6_ChainIsDesired ==
    fw_sync.pc = "done" =>
        /\ Range(chain) = WantedEntries(fw_sync.rules)
        /\ Len(chain) = Cardinality(WantedEntries(fw_sync.rules))

\* ------------------------------------------------------------------------
\* Applying a configuration
\* ------------------------------------------------------------------------
\* an execution of _on_config_update that has begun and has not ended
InProgress(task) == task.pc \in {"tcp_removing", "firewall"}

\* C1: two executions of _on_config_update are never in progress at the
\* same time: an apply runs to completion before a step of another begins.
C1_AppliesSerialized ==
    Cardinality({i \in 1..Len(applies) : InProgress(applies[i])}) <= 1

\* C3: once TCPProxyManager.sync_proxies(services) has returned, the ports
\* with an active TCP listener are exactly the TCP listen ports of services.
C3_TcpListenersAreDesired ==
    tcp_synced.ended => tcp_synced.listeners = tcp_synced.desired

\* C4: after _on_config_update has run the UDP sync of a config, the ports
\* with an active UDP listener are exactly the UDP listen ports of the
\* config's services.
C4_UdpListenersAreDesired ==
    udp_synced.ended => udp_synced.listeners = udp_synced.desired

\* the version of the config handed to on_config_update last
LastApplied ==
    IF applies = <<>> THEN 0 ELSE applies[Len(applies)].config.config_version

Applied == Len(applies') = Len(applies) + 1

\* C10: the initial fetch of the pull loop, when it succeeds, applies the
\* config whatever its version; a later tick applies the fetched config if
\* and only if its version differs from the version applied last, and the
\* config it applies is the fetched one.
C10_PullAppliesOnVersionChange ==
    [][/\ (sync_pc = "initial" /\ sync_pc' = "loop" /\ last_fetch'.version # 0)
            => (Applied /\ LastApplied' = last_fetch'.version)
       /\ (ticks' = ticks + 1 /\ Len(applies) < MaxApplies)
            => (Applied <=> (last_fetch'.version # 0
                             /\ last_fetch'.version # LastApplied))
       /\ (ticks' = ticks + 1 /\ Applied)
            => LastApplied' = last_fetch'.version]_vars

\* a tick has fetched the version applied last and nothing was applied,
\* after an earlier fetch of another version was applied
C10_Witness ==
    /\ last_fetch.by = "tick"
    /\ last_fetch.version # 0
    /\ last_fetch.version = LastApplied
    /\ ticks = 2
    /\ Len(applies) = 2
    /\ applies[1].config.config_version # applies[2].config.config_version

\* C11: a force sync whose fetch succeeds applies the fetched config, also
\* when its version equals the version applied last, and that version is
\* the one applied last afterwards: a pull tick that follows it and fetches
\* the same version applies nothing.
C11_ForceSyncApplies ==
    [][/\ (force_syncs' = force_syncs + 1 /\ last_fetch'.version # 0)
            => (Applied /\ LastApplied' = last_fetch'.version)
       /\ (ticks' = ticks + 1 /\ last_fetch.by = "force"
           /\ last_fetch.version # 0 /\ last_fetch'.version = last_fetch.version)
            => ~Applied]_vars

\* a force sync has fetched, and applied, the version that the pull loop
\* had applied before it
C11_Witness ==
    /\ last_fetch.by = "force"
    /\ sync_pc = "loop"
    /\ Len(applies) = 2
    /\ applies[2].pc = "created"
    /\ applies[1].config.config_version = last_fetch.version
    /\ applies[2].config.config_version = last_fetch.version

\* a fetch_config call of the pull loop or of force_sync returned
FetchReturned ==
    \/ sync_pc = "initial" /\ sync_pc' = "loop"
    \/ ticks' = ticks + 1
    \/ force_syncs' = force_syncs + 1

\* C12: when a fetch fails, in the pull loop or in force_sync, the version
\* applied last, both blocklists, both listener tables, the firewall rule
\* set and the chain are unchanged, no apply is started, and the pull loop
\* is in its loop, ready for its next tick.
C12_FetchFailureKeepsConfig ==
    [][(FetchReturned /\ last_fetch'.version = 0)
          => /\ UNCHANGED <<current_version, applies, tcp_blocklist, udp_blocklist,
                            tcp_proxies, udp_proxies, current_rules, chain>>
             /\ LastApplied' = LastApplied
             /\ force_syncs' = force_syncs => sync_pc' = "loop"
             /\ force_syncs' # force_syncs => sync_pc' = sync_pc]_vars

\* a tick's fetch has failed after a config with a listener, a blocked
\* address and a firewall rule was applied
C12_Witness ==
    /\ last_fetch = [by |-> "tick", version |-> 0]
    /\ sync_pc = "loop"
    /\ current_version # 0
    /\ tcp_proxies # <<>>
    /\ tcp_blocklist # {}
    /\ current_rules # {}

\* the agent is as a successful apply of the config of task i left it: the
\* task before it has returned, no other task is in progress, the managers
\* hold the config's blocklist, the listener tables hold running proxies for
\* the config's ports and nothing else, and the firewall rule set holds the
\* keys of the config's resolvable rules
AsLeftBySameConfig(i) ==
    /\ i > 1
    /\ applies[i - 1].pc = "done"
    /\ \A j \in 1..Len(applies) : ~InProgress(applies[j])
    /\ tcp_blocklist = applies[i].config.blocklist
    /\ udp_blocklist = applies[i].config.blocklist
    /\ Ports(tcp_proxies) = DesiredPorts(applies[i].config.services, "tcp")
    /\ ActiveListeners(tcp_proxies) = Ports(tcp_proxies)
    /\ Ports(udp_proxies) = DesiredPorts(applies[i].config.services, "udp")
    /\ current_rules = DesiredKeys(DesiredRules(applies[i].config.firewall_rules))

\* C13: applying a desired state again to an agent that a successful apply
\* of the same desired state has left is a no-op: the second apply returns
\* without an await, so it issues no iptables command, and it stops no
\* listener and starts none.
C13_SecondSyncIsNoOp ==
    [][\A i \in 1..Len(applies) :
          (applies[i].pc = "created" /\ applies'[i].pc # "created"
           /\ AsLeftBySameConfig(i))
          => /\ applies'[i].pc = "done"
             /\ UNCHANGED <<tcp_proxies, udp_proxies, current_rules, chain>>]_vars

\* a second apply is about to start on listeners and firewall rules that
\* the apply before it has set up for the same services and rules
C13_Witness ==
    /\ Len(applies) = 2
    /\ applies[2].pc = "created"
    /\ AsLeftBySameConfig(2)
    /\ tcp_proxies # <<>>
    /\ current_rules # {}
    /\ chain # <<>>

\* ------------------------------------------------------------------------
\* C14: after any sequence of register calls there is exactly one Agent row
\* per overlay IP; a registration with an overlay IP that has a row returns
\* the id of that row and leaves it with the hostname, public_ip and version
\* of this later registration, and a first registration creates a row with
\* status healthy and last_heartbeat set to now.
\* ------------------------------------------------------------------------
RegisterAnswered == response'.op = "register" /\ response'.serial # response.serial

C14_RegisterUpserts ==
    [][/\ \A a, b \in agents' : (a.wireguard_ip = b.wireguard_ip \/ a.id = b.id) => a = b
       /\ RegisterAnswered =>
            LET registration == response'.body
                existing == GetByWireguardIp(agents, registration.wireguard_ip)
                after == GetByWireguardIp(agents', registration.wireguard_ip)
            IN  /\ Cardinality(after) = 1
                /\ agents' \ after = agents \ existing
                /\ \A a \in after :
                    /\ response'.agent_id = a.id
                    /\ response'.status = 200
                    /\ a.hostname = registration.hostname
                    /\ a.public_ip = registration.public_ip
                    /\ a.version = registration.version
                    /\ \A e \in existing :
                        /\ a.id = e.id
                        /\ a.status = e.status
                        /\ a.last_heartbeat = e.last_heartbeat
                    /\ existing = {} =>
                        /\ a.status = "healthy"
                        /\ a.last_heartbeat = utcnow
                        /\ GetById(agents, a.id) = {}]_vars

\* a registration has replaced the profile of an agent that had sent a
\* heartbeat since its first registration
C14_Witness ==
    /\ response.op = "register"
    /\ response.serial = 3
    /\ response.body.hostname = "edge-b"
    /\ \E a \in agents :
        /\ agents = {a}
        /\ a.id = response.agent_id
        /\ a.hostname = "edge-b"
        /\ a.active_connections = 1

\* ------------------------------------------------------------------------
\* C15: a heartbeat for a known agent sets last_heartbeat to now, sets
\* status to healthy whatever the status was, and stores the reported
\* active_connections, cpu_percent and memory_percent.
\* ------------------------------------------------------------------------
HeartbeatAnswered == response'.op = "heartbeat" /\ response'.serial # response.serial

C15_HeartbeatPromotes ==
    [][(HeartbeatAnswered /\ response'.status = 200) =>
            \E a \in GetById(agents', response'.agent_id) :
                /\ a.last_heartbeat = utcnow
                /\ a.status = "healthy"
                /\ a.active_connections = response'.body.active_connections
                /\ a.cpu_percent = response'.body.cpu_percent
                /\ a.memory_percent = response'.body.memory_percent]_vars

\* ------------------------------------------------------------------------
\* C16: a heartbeat for an agent id that has no row when the request is
\* received (never registered, or deleted) is answered 404 and no Agent row
\* is created or modified.
\* ------------------------------------------------------------------------
C16_UnknownHeartbeatIs404 ==
    [][(/\ HeartbeatAnswered
        /\ heartbeat = NoHeartbeatRequest
        /\ GetById(agents, response'.agent_id) = {})
            => (response'.status = 404 /\ agents' = agents)]_vars

\* the heartbeat of a deleted agent was answered while another agent is
\* registered
C16_Witness ==
    /\ response.op = "heartbeat"
    /\ response.status = 404
    /\ response.agent_id = 1
    /\ GetById(agents, 1) = {}
    /\ GetById(agents, 2) # {}

\* ------------------------------------------------------------------------
\* C17: a Health Monitor tick sets to unhealthy every agent with status
\* healthy whose last_heartbeat is absent or older than heartbeat_timeout,
\* and changes no agent whose last_heartbeat is within heartbeat_timeout
\* and no agent whose status is not healthy.
\* ------------------------------------------------------------------------
MonitorStepped == monitor' # monitor

C17_MonitorDemotesStale ==
    [][MonitorStepped =>
        /\ \A a \in agents \ agents' :
            /\ Demotes(a, monitor.now)
            /\ agents' = (agents \ {a}) \cup {[a EXCEPT !.status = "unhealthy"]}
        /\ (monitor.pc = "check" /\ monitor.todo = <<>>)
                => \A a \in agents : ~Demotes(a, monitor.now)]_vars


\* ------------------------------------------------------------------------
\* C18: for every store state and every agent A, get_agent_config(A) returns
\* as services each Service that has an enabled assignment with agent_id
\* null or A, each once; as firewall_rules the enabled FirewallRules with
\* agent_id null or A; as blocklist every blocklist IP. A service reachable
\* only through disabled assignments or assignments of another agent is not
\* returned.
\* ------------------------------------------------------------------------
C18_ConfigContents ==
    \A A \in AgentIds :
        LET config == GetAgentConfig(A)
            reachable == {s \in services :
                            \E a \in service_assignments :
                                /\ a.service_id = s.id
                                /\ a.enabled
                                /\ a.agent_id \in {NoAgent, A}}
            rules == {r \in firewall_rules : r.enabled /\ r.agent_id \in {NoAgent, A}}
        IN  /\ Range(config.services) = reachable
            /\ Len(config.services) = Cardinality(reachable)
            /\ Range(config.firewall_rules) = rules
            /\ Len(config.firewall_rules) = Cardinality(rules)
            /\ Range(config.blocklist) = {e.ip : e \in blocklist}
            /\ Len(config.blocklist) = Cardinality(blocklist)

\* agent 1 reaches one service through two enabled assignments, its own and
\* the global one, and gets it once; agent 2 reaches it through the global one
C18_Witness ==
    /\ \E a1, a2 \in service_assignments :
        /\ a1.agent_id = NoAgent /\ a2.agent_id = 1
        /\ a1.enabled /\ a2.enabled
        /\ a1.service_id = a2.service_id
    /\ Len(GetAgentConfig(1).services) = 1
    /\ Len(GetAgentConfig(2).services) = 1

\* ------------------------------------------------------------------------
\* C19: after any sequence of service create, update and delete requests no
\* two Service records share a name and no two share a (listen_port,
\* protocol); a create or update that would produce such a duplicate is
\* rejected with HTTP 400 and leaves the store unchanged.
\* ------------------------------------------------------------------------
StoreAnswered(op) == mutations' # mutations /\ store_response'.op = op

ClashesWith(row, others) ==
    \E s \in others :
        \/ s.name = row.name
        \/ (s.listen_port = row.listen_port /\ s.protocol = row.protocol)

Rejected400 ==
    /\ store_response'.status = 400
    /\ UNCHANGED <<services, service_assignments, firewall_rules, blocklist,
                   connection_stats>>

C19_ServicesUnique ==
    [][/\ \A s, t \in services' : ClashesWith(s, {t}) => s = t
       /\ (StoreAnswered("service_create") /\ ClashesWith(store_response'.body, services))
            => Rejected400
       /\ StoreAnswered("service_update") =>
            \A e \in services :
                (/\ e.id = store_response'.id
                 /\ ClashesWith(ServiceUpdated(e, store_response'.body), services \ {e}))
                    => Rejected400]_vars

\* ------------------------------------------------------------------------
\* C20: after any sequence of assignment create, update and delete requests
\* no two ServiceAssignment records share the same (service_id, agent_id),
\* a null agent_id counting as a value of its own; updates that change
\* service_id or agent_id keep this as well as creates.
\* ------------------------------------------------------------------------
C20_AssignmentsUnique ==
    \A a, b \in service_assignments :
        (a.service_id = b.service_id /\ a.agent_id = b.agent_id) => a = b

\* ------------------------------------------------------------------------
\* C21: after a Service is deleted no ServiceAssignment or ConnectionStat
\* refers to it, and after an Agent is deleted no ConnectionStat or
\* ServiceAssignment refers to it; in every reachable store state the
\* service_id and the non-null agent_id of each assignment refer to
\* existing records.
\* ------------------------------------------------------------------------
Ids(table) == {r.id : r \in table}

\* the service whose delete was the latest store request answered, when no
\* service has its id
DeletedService ==
    IF store_response.op = "service_delete" /\ store_response.status = 200
    THEN {store_response.id} \ Ids(services)
    ELSE {}

\* the agent whose delete was the latest agents request answered, when no
\* agent has its id
DeletedAgent ==
    IF response.op = "delete" /\ response.status = 200
    THEN {response.agent_id} \ Ids(agents)
    ELSE {}

C21_NoReferenceToDeleted ==
    [][/\ \A a \in service_assignments' :
            /\ a.service_id \in Ids(services')
            /\ a.agent_id = NoAgent \/ a.agent_id \in Ids(agents')
       /\ \A r \in service_assignments' \cup connection_stats' :
            /\ r.service_id \notin (DeletedService \cup DeletedService') \ Ids(services')
            /\ r.agent_id \notin (DeletedAgent \cup DeletedAgent') \ Ids(agents')]_vars

\* C22: a TCP connection from a client that is not blocked whose backend
\* connect raised has status "timeout" if the connect timeout elapsed,
\* "refused" if the backend refused and "error" for any other failure, on
\* the connection and on every stat it emits; its client socket is closed,
\* no backend connection was opened, no byte was sent, and the handler
\* leaves the forwarding path for its cleanup
ConnectRaised(c) == c.failure # NoFailure

ExpectedStatus(c) ==
    CASE c.failure = "TimeoutError" -> "timeout"
      [] c.failure = "ConnectionRefusedError" -> "refused"
      [] OTHER -> "error"

C22_ConnectFailureStatus ==
    \A i \in 1..Len(conns) :
        ConnectRaised(conns[i]) =>
            /\ conns[i].status = ExpectedStatus(conns[i])
            /\ \A k \in 1..Len(conns[i].emitted) :
                   conns[i].emitted[k] = ExpectedStatus(conns[i])
            /\ conns[i].client_closed
            /\ ~conns[i].backend_opened
            /\ conns[i].bytes_sent = 0
            /\ conns[i].bytes_received = 0
            /\ conns[i].pc \in {"cleanup_client", "done", "raised"}

C22_Witness ==
    \E i, j \in 1..Len(conns) :
        /\ conns[i].failure = "TimeoutError"
        /\ conns[i].emitted = <<"timeout">>
        /\ conns[j].failure = "ConnectionRefusedError"
        /\ conns[j].emitted = <<"refused">>

\* C23: an established TCP flow does not stay open with one direction
\* running: once its handler has left the wait for the two directions no
\* forwarding task runs, and when the handler has ended both sockets are
\* closed and exactly one stat, with status "completed", was emitted
Established(c) == c.backend_opened

C23_EstablishedFlowCompletes ==
    \A i \in 1..Len(conns) :
        Established(conns[i]) =>
            /\ conns[i].pc # "forwarding" =>
                   "running" \notin {conns[i].c2b, conns[i].b2c}
            /\ HandlerEnded(conns[i]) =>
                   /\ conns[i].client_closed
                   /\ conns[i].backend_closed
                   /\ conns[i].emitted = <<"completed">>

\* C24: when remove_proxy has returned the listener accepts no connection,
\* no handler of a connection it accepted is still running
\* (_active_connections is empty) and each accepted connection has emitted
\* its stat
C24_StopEndsEveryFlow ==
    listener.remove_proxy = "returned" =>
        /\ ~listener.serving
        /\ active_connections = {}
        /\ \A i \in 1..Len(conns) :
               /\ HandlerEnded(conns[i])
               /\ Len(conns[i].emitted) = 1

\* ------------------------------------------------------------------------
\* Properties of the UDP proxy
\* ------------------------------------------------------------------------

\* the backend endpoints of a client address that are open
OpenBackends(addr) ==
    {i \in 1..Len(backends) : backends[i].addr = addr /\ ~backends[i].closed}

\* C25: a client address has at most one open backend endpoint at a time,
\* and every open backend endpoint is the one the table holds for its
\* client address
C25_OneSessionPerClient ==
    \A addr \in UdpAddrs :
        /\ Cardinality(OpenBackends(addr)) <= 1
        /\ \A i \in OpenBackends(addr) : clients[addr] = i

\* C26: a reaper pass removes from the table every session whose last
\* datagram, in either direction, is more than client_timeout old, closes
\* its backend endpoint and emits one stat with status "timeout" for it,
\* and leaves every other session as it is; no other step gives a session
\* the status "timeout"; connection_lost closes every session of the table
\* with one stat of status "closed"; no session emits more than one stat
SessionOf(addr) == backends[clients[addr]]

IdleLongerThanTimeout(addr) ==
    udp_time - SessionOf(addr).last_activity > ClientTimeout

ReaperPassed == cleanup_passes' # cleanup_passes

ListenerShutDown == udp_transport # "closed" /\ udp_transport' = "closed"

ClosedWith(i, status) ==
    /\ backends'[i].closed
    /\ backends'[i].status = status
    /\ backends'[i].emitted = <<status>>

C26_ReaperAndShutdown ==
    [][/\ ReaperPassed =>
            \A addr \in UdpAddrs :
                InClients(addr) =>
                    IF IdleLongerThanTimeout(addr)
                    THEN /\ clients'[addr] = NotInClients
                         /\ ClosedWith(clients[addr], "timeout")
                    ELSE /\ clients'[addr] = clients[addr]
                         /\ backends'[clients[addr]] = SessionOf(addr)
       /\ \A i \in 1..Len(backends) :
              backends'[i].status = "timeout" /\ backends[i].status # "timeout"
                 => ReaperPassed
       /\ ListenerShutDown =>
            \A addr \in UdpAddrs :
                /\ clients'[addr] = NotInClients
                /\ InClients(addr) => ClosedWith(clients[addr], "closed")
       /\ \A i \in 1..Len(backends') : Len(backends'[i].emitted) <= 1]_vars

C26_Witness ==
    /\ cleanup_passes = MaxPasses
    /\ udp_transport = "closed"
    /\ \E i, j \in 1..Len(backends) :
           /\ backends[i].emitted = <<"timeout">>
           /\ backends[j].emitted = <<"closed">>
           /\ backends[j].last_activity < udp_time

\* C27: a datagram_received call for a source address whose IP is in the
\* blocklist forwards nothing, creates no session and no task that would
\* create one, and changes no counter and no last_activity, also when the
\* address has a session in the table
DatagramHandled(addr) == datagrams'[addr].received # datagrams[addr].received

C27_BlockedDatagramDropped ==
    [][\A addr \in UdpAddrs :
          DatagramHandled(addr) /\ addr[1] \in protocol_blocklist =>
              /\ backends' = backends
              /\ clients' = clients
              /\ creating' = creating]_vars

C27_Witness ==
    \E addr \in UdpAddrs :
        /\ addr[1] \in protocol_blocklist
        /\ datagrams[addr].blocked > 0
        /\ InClients(addr)
        /\ SessionOf(addr).packets_sent = 1
        /\ datagrams[addr].received = 2

\* C28: _current_rules gains a key only in a step whose iptables -A put its
\* entry in the chain, and loses a key only in a step whose iptables -D took
\* its entry out of the chain: a key whose add or remove failed, or whose
\* interface does not resolve for the removal, is in the set as before
EntryOf(key) == ChainEntry(key, GetInterfaceForType(key.interface))

Occurrences(ch, entry) == Cardinality({k \in 1..Len(ch) : ch[k] = entry})

C28_CurrentRulesFollowIptables ==
    [][/\ \A key \in current_rules' \ current_rules :
              Occurrences(chain', EntryOf(key)) = Occurrences(chain, EntryOf(key)) + 1
       /\ \A key \in current_rules \ current_rules' :
              Occurrences(chain', EntryOf(key)) = Occurrences(chain, EntryOf(key)) - 1]_vars

\* C30: when stop() has returned and the POST of its flush succeeded, every
\* record that was in the queue when stop() was called has been delivered
\* to the controller, whatever the length of the queue, and none of them is
\* still queued
C30_StopFlushesWholeQueue ==
    stats_stop.pc = "stopped" /\ stats_stop.outcome = "ok" =>
        /\ Range(stats_stop.at_stop) \subseteq Range(delivered)
        /\ Range(stats_stop.at_stop) \cap Range(stats_queue) = {}

\* ------------------------------------------------------------------------
\* Properties of the agent shutdown
\* ------------------------------------------------------------------------

\* the order of the stops as the claim lists it
ClaimedStopOrder ==
    <<"control_api", "config_sync", "heartbeat", "tcp_manager", "udp_manager",
      "firewall_manager", "stats_reporter">>

Listed(stops) == SelectSeq(stops, LAMBDA c : c \in Range(ClaimedStopOrder))

\* the stats handed to on_connection so far, by TCP flows and UDP sessions
EmittedBy(flows) ==
    {<<i, k>> : i \in 1..Len(flows), k \in 1..MaxConns} \cap
    UNION {{<<i, k>> : k \in 1..Len(flows[i].emitted)} : i \in 1..Len(flows)}

StatsEmitted == [tcp |-> EmittedBy(conns), udp |-> EmittedBy(backends)]

\* C29: the stops begin in the listed order, each after the one before it
\* has returned, and every stat a TCP flow or UDP session emits is emitted
\* before the stop of the stats reporter, with its final flush, begins
C29_ShutdownOrder ==
    [][/\ IsPrefix(Listed(agent_stop.began'), ClaimedStopOrder)
       /\ IsPrefix(agent_stop.returned', agent_stop.began')
       /\ Len(agent_stop.began') <= Len(agent_stop.returned') + 1
       /\ "stats_reporter" \in Range(agent_stop.began) =>
              StatsEmitted' = StatsEmitted]_vars

\* ------------------------------------------------------------------------
\* Blocklist of the listeners
\* ------------------------------------------------------------------------
\* the proxies of a manager's table that accept: bound and not stopped
Listening(table) == {k \in 1..Len(table) : table[k].running /\ table[k].bound}

\* every accepting listener holds the blocklist of its manager
ListenersHoldManagerBlocklist ==
    /\ \A k \in Listening(tcp_proxies) : tcp_proxies[k].blocklist = tcp_blocklist
    /\ \A k \in Listening(udp_proxies) : udp_proxies[k].blocklist = udp_blocklist

\* C31: update_blocklist(B) of an apply makes B, as a whole, the blocklist
\* of both managers; the managers keep it until the next update_blocklist,
\* and every accepting TCP and UDP listener, present at the update or started
\* after it, holds exactly the manager's blocklist, never an older one.
C31_ListenersUseCurrentBlocklist ==
    [][/\ \A i \in 1..Len(applies) :
             (applies[i].pc = "created" /\ applies'[i].pc # "created")
             => /\ tcp_blocklist' = applies[i].config.blocklist
                /\ udp_blocklist' = applies[i].config.blocklist
       /\ (\A i \in 1..Len(applies) :
              ~(applies[i].pc = "created" /\ applies'[i].pc # "created"))
          => UNCHANGED <<tcp_blocklist, udp_blocklist>>
       /\ ListenersHoldManagerBlocklist']_vars

\* an apply whose update_blocklist emptied the blocklist has started a
\* listener on port 2 next to the listener of port 1 that an earlier apply
\* had started (its backend is the earlier one), and both hold the new set
C31_Witness ==
    /\ \E i \in 1..Len(applies) :
          /\ applies[i].pc = "firewall"
          /\ applies[i].config.services = <<Tcp1b, Tcp2>>
          /\ applies[i].config.blocklist = {}
    /\ Len(tcp_proxies) = 2
    /\ Listening(tcp_proxies) = {1, 2}
    /\ tcp_proxies[1].backend = Tcp1.backend
    /\ \A k \in 1..2 : tcp_proxies[k].blocklist = {}
    /\ tcp_blocklist = {}

\* ------------------------------------------------------------------------
\* The value of the config version
\* ------------------------------------------------------------------------
\* the rows of a table that carry agent a or no agent
OfAgentOrGlobal(table, a) == {r \in table : r.agent_id \in {a, NoAgent}}

\* the timestamps of the rows of a table
Timestamps(table) == {r.updated_at : r \in table}

\* floor(max_timestamp_seconds) * 10000 + ((firewall_count * 100 +
\* assignment_count * 10 + blocklist_count) mod 10000), or 1 + the sum of
\* the counts when there is no timestamp
FormulaVersion(timestamps, firewall_count, assignment_count, blocklist_count) ==
    IF timestamps = {}
    THEN 1 + (firewall_count + assignment_count + blocklist_count)
    ELSE (EpochBase + (SetMax(timestamps) \div TicksPerSecond)) * 10000
         + ((firewall_count * 100 + assignment_count * 10 + blocklist_count) % 10000)

\* C32 as stated: for every store state the version of agent A is the
\* formula over the FirewallRule, ServiceAssignment, Service and
\* BlocklistEntry records visible to A, a Service being visible to A through
\* an assignment to A or to all agents.
C32_VersionOverVisibleRecords ==
    \A a \in AgentIds :
        ComputeConfigVersion(a) =
            FormulaVersion(Timestamps(OfAgentOrGlobal(firewall_rules, a))
                               \cup Timestamps(OfAgentOrGlobal(service_assignments, a))
                               \cup Timestamps(VisibleServices(a))
                               \cup Timestamps(blocklist),
                           Cardinality(OfAgentOrGlobal(firewall_rules, a)),
                           Cardinality(OfAgentOrGlobal(service_assignments, a)),
                           Cardinality(blocklist))

\* C32, amended: for every store state the version of agent A is the formula
\* with the maximum timestamp taken over the firewall rules and assignments
\* of A or of all agents, over every Service, assigned to A or not, and over
\* every blocklist entry, and with the counts of these firewall rules,
\* assignments and blocklist entries (services are not counted).
C32_VersionOverAllServices ==
    \A a \in AgentIds :
        ComputeConfigVersion(a) =
            FormulaVersion(Timestamps(OfAgentOrGlobal(firewall_rules, a))
                               \cup Timestamps(OfAgentOrGlobal(service_assignments, a))
                               \cup Timestamps(services)
                               \cup Timestamps(blocklist),
                           Cardinality(OfAgentOrGlobal(firewall_rules, a)),
                           Cardinality(OfAgentOrGlobal(service_assignments, a)),
                           Cardinality(blocklist))

\* a firewall rule for all agents and a blocklist entry exist, and the
\* latest timestamp, in a later second, is that of a service that no
\* assignment makes visible to agent 1
C32_Witness ==
    /\ \E r \in firewall_rules : r.agent_id = NoAgent
    /\ blocklist # {}
    /\ \E s \in services :
          /\ s \notin VisibleServices(1)
          /\ \A r \in firewall_rules \cup blocklist : r.updated_at < s.updated_at
          /\ TimestampSeconds(s.updated_at) > EpochBase
    /\ ComputeConfigVersion(1) > 10000 * (EpochBase + 1)

\* ------------------------------------------------------------------------
\* Listeners that a sync keeps
\* ------------------------------------------------------------------------
\* task i takes a step of its sync_proxies calls
SyncStep(i) ==
    /\ applies[i].pc \in {"created", "tcp_removing"}
    /\ applies'[i] # applies[i]

\* the listen ports that the services of a config name for a protocol
PortsOf(config_services, protocol) ==
    {config_services[k].listen_port :
        k \in {j \in 1..Len(config_services) : config_services[j].protocol = protocol}}

\* the listener object of a table entry: everything but the blocklist,
\* which update_blocklist replaces
ListenerOf(entry) == [entry EXCEPT !.blocklist = {}]

\* the listeners of a table whose port is in a set
KeptListeners(table, ports) ==
    {ListenerOf(table[k]) : k \in {j \in 1..Len(table) : table[j].listen_port \in ports}}

FailedOnly(v) ==
    /\ \E i \in 1..Len(applies) :
          applies[i].config.config_version = v /\ applies[i].pc = "failed"
    /\ \A i \in 1..Len(applies) :
          applies[i].config.config_version = v => applies[i].pc = "failed"

\* C34: _current_version stands for a version only when an apply of it
\* completed: when every apply of v raised partway, a pull tick that fetches
\* v again hands the config to on_config_update again.
C34_FailedApplyIsRetried ==
    [][(/\ ticks' = ticks + 1
        /\ last_fetch'.version # 0
        /\ Len(applies) < MaxApplies
        /\ FailedOnly(last_fetch'.version))
       => Len(applies') = Len(applies) + 1]_vars

\* ------------------------------------------------------------------------
\* Failed uploads of the StatsReporter
\* ------------------------------------------------------------------------
\* C35: no record is lost by a failed upload: whatever way the POST fails,
\* transport error or non-2xx response, every record that _send_batch took
\* from the queue is afterwards delivered to the controller or back in the
\* queue (or still in the request, or discarded by the bounded queue).
C35_FailedUploadLosesNoRecord ==
    \A r \in 1..recorded :
        r \in Range(delivered) \cup Range(stats_queue) \cup Range(in_flight)
              \cup discarded

\* C36: when the put-back of a failed batch overflows the queue, the records
\* the queue discards are the oldest ones: every record discarded by the
\* re-insertion is older than every record the queue holds afterwards.
C36_PutBackDropsOldest ==
    [][(report_pc = "posting" /\ last_failed' # <<>>)
       => \A d \in discarded' \ discarded :
             \A k \in Range(stats_queue') : d < k]_vars

\* ------------------------------------------------------------------------
\* Listeners that failed to bind
\* ------------------------------------------------------------------------
\* C37: every port of TCPProxyManager's listener table has a listener that
\* is bound and accepting: a proxy whose start failed to bind its port is
\* not left in the table (so a later sync_proxies starts it again).
C37_TableHoldsBoundListeners ==
    \A k \in 1..Len(tcp_proxies) :
        tcp_proxies[k].running => tcp_proxies[k].bound

\* ------------------------------------------------------------------------
\* Health Monitor and heartbeat requests running side by side
\* ------------------------------------------------------------------------
\* the last heartbeat of the agent is no older than heartbeat_timeout
HeartbeatWithinTimeout(agent) ==
    /\ agent.last_heartbeat # NoHeartbeat
    /\ utcnow - agent.last_heartbeat <= HeartbeatTimeout

\* C38: however a run of the Health Monitor and a heartbeat request
\* interleave, once both have completed every agent whose last_heartbeat is
\* within heartbeat_timeout has status healthy.
C38_MonitorAndHeartbeatInterleaveSafely ==
    (monitor.pc = "sleep" /\ heartbeat = NoHeartbeatRequest)
    => \A agent \in agents :
          HeartbeatWithinTimeout(agent) => agent.status = "healthy"

\* ------------------------------------------------------------------------
\* POST /services requests side by side
\* ------------------------------------------------------------------------
\* C39: two POST /api/v1/services requests with different names and the
\* same (listen_port, protocol) cannot both succeed: however their check and
\* insert steps interleave, once both are answered at most one Service with
\* that (listen_port, protocol) exists.
C39_ConcurrentCreatesKeepPortUnique ==
    (\A r \in 1..MaxCreates : create_requests[r].pc # "checked")
    => \A s1 \in services : \A s2 \in services :
          (s1.listen_port = s2.listen_port /\ s1.protocol = s2.protocol) => s1 = s2

\* ------------------------------------------------------------------------
\* A pull-loop apply and a force-sync apply outstanding together
\* ------------------------------------------------------------------------
\* the task has returned or raised
ApplyFinished(task) == task.pc \in {"done", "failed"}

\* the apply of the pull loop, task i, ends with this step as the last one
\* outstanding, after the apply of the force sync, which was made later for
\* a config of another version and has returned
PullApplyEndsAfterForceApply(i) ==
    /\ i < Len(applies)
    /\ ~ApplyFinished(applies[i])
    /\ ApplyFinished(applies'[i])
    /\ \A j \in 1..Len(applies) : j # i => ApplyFinished(applies[j])
    /\ applies[Len(applies)].pc = "done"
    /\ last_fetch.by = "force"
    /\ last_fetch.version = applies[Len(applies)].config.config_version
    /\ applies[i].config.config_version # last_fetch.version

\* C40: when a pull-loop apply and a force-sync apply of two different
\* configs are outstanding together, then once both have finished the agent
\* is as the config fetched last wants it, whose version _current_version
\* holds: the blocklists are its blocklist, the TCP and UDP listeners are
\* those of its services, and no firewall rule is held that it does not
\* name; nothing of the older config is left.
C40_LastFetchedConfigWins ==
    [][\A i \in 1..Len(applies) :
          PullApplyEndsAfterForceApply(i)
          => LET last == applies'[Len(applies')].config
             IN  /\ current_version' = last.config_version
                 /\ tcp_blocklist' = last.blocklist
                 /\ udp_blocklist' = last.blocklist
                 /\ Ports(tcp_proxies') = DesiredPorts(last.services, "tcp")
                 /\ ActiveListeners(tcp_proxies') = DesiredPorts(last.services, "tcp")
                 /\ Ports(udp_proxies') = DesiredPorts(last.services, "udp")
                 /\ current_rules' \subseteq
                        DesiredKeys(DesiredRules(last.firewall_rules))]_vars

====
